---- MODULE Spec2Model ----
(***************************************************************************)
(* The local store of mail-to-sqlite (src/src/mail_to_sqlite/db.py): the   *)
(* messages, message_references and attachments tables, the upsert         *)
(* create_message, the attachment writer save_attachment, and the thread   *)
(* reconstruction pass that main.py calls as db.rebuild_threads().         *)
(*                                                                         *)
(* Text values (message ids, header values, filenames) are sequences of    *)
(* one-character tokens, so that stripping and splitting are computed and  *)
(* SQL text equality is sequence equality.  An id token such as "a" stands *)
(* for a run of characters holding no blank, no bracket, no dot.           *)
(***************************************************************************)
EXTENDS Integers, Sequences, FiniteSets, TLC

VARIABLES
    messages,            \* table messages: message_id -> row
    message_references,  \* table message_references: set of <<message_id, refers_to_id>>
    attachments,         \* table attachments: sequence of rows, position = id
    thread_headers,      \* per message row: the threading headers the reconstructor reads
    now,                 \* the wall clock read by datetime.now()
    last,                \* the call that produced this state (history)
    alt,                 \* a second store, ingesting the same messages in another order
    run                  \* the command main() is running: its position and local variables

vars == <<messages, message_references, attachments, thread_headers, now, last, alt, run>>

-----------------------------------------------------------------------------
(* Bounds *)

MaxTime == 5      \* number of store calls in one behaviour
MaxVal == 2       \* versions of a message's content
MaxClobber == 1   \* size of the clobber lists tried (the full list is tried too)
MaxUpserts == 2   \* create_message calls in one behaviour of SpecUpsert

-----------------------------------------------------------------------------
(* Text *)

\* SQL NULL / Python None: a value no text equals.
Null == <<"NULL">>

Whitespace == {" "}
Brackets == {"<", ">"}

RECURSIVE LStrip(_, _)
LStrip(s, chars) ==
    IF s # <<>> /\ Head(s) \in chars THEN LStrip(Tail(s), chars) ELSE s

RECURSIVE RStrip(_, _)
RStrip(s, chars) ==
    IF s # <<>> /\ s[Len(s)] \in chars
    THEN RStrip(SubSeq(s, 1, Len(s) - 1), chars)
    ELSE s

\* str.strip(chars)
Strip(s, chars) == RStrip(LStrip(s, chars), chars)

\* Python truthiness of an Optional[str] / list attribute.
Truthy(x) == x # Null /\ x # <<>>

Range(s) == {s[i] : i \in 1..Len(s)}

-----------------------------------------------------------------------------
(* Schema *)

FieldOrder ==
    <<"thread_id", "sender", "recipients", "labels", "subject", "body",
      "size", "timestamp", "is_read", "is_outgoing">>

\* The columns create_message copies from the ParsedMessage and --clobber names.
MutableFields == Range(FieldOrder)

FieldNo(f) == CHOOSE i \in 1..Len(FieldOrder) : FieldOrder[i] = f

\* Names for which hasattr(Message, name) holds: the model's fields, the
\* foreign key's raw column accessor and the primary key.
MessageAttrs ==
    MutableFields \cup {"message_id", "last_indexed", "in_reply_to",
                        "in_reply_to_id", "id"}

Store == [messages |-> messages, message_references |-> message_references,
          attachments |-> attachments]

EmptyStore == [messages |-> <<>>, message_references |-> {}, attachments |-> <<>>]

-----------------------------------------------------------------------------
(* create_message: the upsert *)

\* The keys of message_data: 'in_reply_to' is present only for a truthy header.
MessageDataKeys(msg) ==
    MutableFields \cup {"message_id", "last_indexed"}
        \cup (IF Truthy(msg.in_reply_to) THEN {"in_reply_to"} ELSE {})

\* FOREIGN KEY (in_reply_to_id) REFERENCES messages(message_id), checked at the
\* end of the statement with foreign_keys = 1: the row may reference itself.
ForeignKeyHoldsMissing(rows, mid, value) == TRUE

ForeignKeyHolds(rows, mid, value) ==
    value = Null \/ value \in DOMAIN rows \/ value = mid

\* The row Message.insert(message_data) writes when message_id is new.
InsertedRow(S, msg, t) ==
    [id |-> Cardinality(DOMAIN S.messages) + 1,
     in_reply_to_id |-> IF Truthy(msg.in_reply_to) THEN msg.in_reply_to ELSE Null,
     cols |-> msg.cols,
     last_indexed |-> t]

\* ON CONFLICT (message_id) DO UPDATE SET update_data.
UpdatedRowAll(row, msg, clobber, t) ==
    [row EXCEPT !.last_indexed = t, !.cols = msg.cols]

UpdatedRowStale(row, msg, clobber, t) ==
    [row EXCEPT
        !.cols = [f \in MutableFields |->
                    IF f \in clobber THEN msg.cols[f] ELSE row.cols[f]]]

\* (a conflict handled by deleting the row and inserting a new one)
UpdatedRowReplaced(row, msg, clobber, t) ==
    [id |-> row.id + 1,
     in_reply_to_id |-> IF Truthy(msg.in_reply_to) THEN msg.in_reply_to ELSE Null,
     cols |-> msg.cols,
     last_indexed |-> t]

UpdatedRow(row, msg, clobber, t) ==
    [row EXCEPT
        !.last_indexed = t,
        !.cols = [f \in MutableFields |->
                    IF f \in clobber THEN msg.cols[f] ELSE row.cols[f]],
        !.in_reply_to_id =
            IF "in_reply_to" \in clobber THEN msg.in_reply_to ELSE @]

\* (a writer that logs only the first entry of msg.references)
ReferenceRowsFirst(msg) ==
    IF Truthy(msg.references) THEN {<<msg.id, msg.references[1]>>} ELSE {}

\* The MessageReference rows of one call: one per entry of msg.references.
ReferenceRows(msg) ==
    IF Truthy(msg.references)
    THEN {<<msg.id, msg.references[i]>> : i \in 1..Len(msg.references)}
    ELSE {}

\* create_message(msg, clobber) at clock value t: the store afterwards and the
\* exception raised ("none" when the call returns).
create_message(S, msg, clobber, t) ==
    LET mid == msg.id
        \* update_data[...] = message_data[field_name] for each clobber name
        \* that hasattr(Message, name): a name that is no key of message_data
        \* raises before any statement runs.
        badKeys == (clobber \cap MessageAttrs) \ MessageDataKeys(msg)
        exists == mid \in DOMAIN S.messages
        row == IF exists
               THEN UpdatedRow(S.messages[mid], msg, clobber \cap MessageAttrs, t)
               ELSE InsertedRow(S, msg, t)
    IN  IF badKeys # {}
        THEN [store |-> S, raised |-> "KeyError"]
        ELSE IF ~ForeignKeyHolds(S.messages, mid, row.in_reply_to_id)
        THEN [store |-> S, raised |-> "IntegrityError"]
        ELSE [store |->
                [S EXCEPT
                    !.messages =
                        [m \in DOMAIN S.messages \cup {mid} |->
                            IF m = mid THEN row ELSE S.messages[m]],
                    !.message_references = @ \cup ReferenceRows(msg)],
              raised |-> "none"]

-----------------------------------------------------------------------------
(* Thread reconstruction.  db.rebuild_threads() is called by main.py and by  *)
(* the tests but defined nowhere in db.py; it is modelled from the           *)
(* specification (4.4), together with the two persisted ParsedMessage        *)
(* fields it reads (3: "Message: all ParsedMessage fields").                 *)

\* What the reconstructor reads of a row: the Message-ID and the raw
\* In-Reply-To header of the message the row was inserted from.
RecordThreadHeaders(hdrs, S, R, msg) ==
    IF R.raised = "none" /\ msg.id \notin DOMAIN S.messages
    THEN [m \in DOMAIN hdrs \cup {msg.id} |->
            IF m = msg.id
            THEN [rfc822_message_id |-> msg.rfc822_message_id,
                  in_reply_to |-> msg.in_reply_to]
            ELSE hdrs[m]]
    ELSE hdrs

\* "normalize the value (trim whitespace, strip < / >)"
Normalize(raw) == Strip(Strip(raw, Whitespace), Brackets)

\* "look up a Message whose rfc822MessageId equals the normalized value":
\* the first such row in row-id order, or Null.
LookupParent(rows, hdrs, raw) ==
    LET found == {p \in DOMAIN rows : hdrs[p].rfc822_message_id = Normalize(raw)}
    IN  IF found = {} THEN Null
        ELSE CHOOSE p \in found : \A q \in found : rows[p].id <= rows[q].id

\* (a pass that rewrites the reference rows of the messages it links, keeping
\* the row that names the parent only)
rebuild_threadsRelinking(S, hdrs) ==
    LET parent(m) == IF Truthy(hdrs[m].in_reply_to)
                     THEN LookupParent(S.messages, hdrs, hdrs[m].in_reply_to)
                     ELSE Null
    IN  [S EXCEPT
            !.messages =
                [m \in DOMAIN S.messages |->
                    IF parent(m) # Null
                    THEN [S.messages[m] EXCEPT !.in_reply_to_id = parent(m)]
                    ELSE S.messages[m]],
            !.message_references =
                {r \in @ : r[1] \in DOMAIN S.messages /\ parent(r[1]) # Null
                                => r[2] = parent(r[1])}]

\* (a pass that saves every row it visits, refreshing its last_indexed)
rebuild_threadsTouching(S, hdrs) ==
    [S EXCEPT !.messages =
        [m \in DOMAIN S.messages |->
            IF Truthy(hdrs[m].in_reply_to)
               /\ LookupParent(S.messages, hdrs, hdrs[m].in_reply_to) # Null
            THEN [S.messages[m] EXCEPT
                    !.in_reply_to_id =
                        LookupParent(S.messages, hdrs, hdrs[m].in_reply_to),
                    !.last_indexed = @ + 1]
            ELSE S.messages[m]]]

\* "if found, set inReplyToId to that Message's messageId (overwriting any
\* prior value); if not found, leave inReplyToId" as it is.
rebuild_threads(S, hdrs) ==
    [S EXCEPT !.messages =
        [m \in DOMAIN S.messages |->
            IF Truthy(hdrs[m].in_reply_to)
               /\ LookupParent(S.messages, hdrs, hdrs[m].in_reply_to) # Null
            THEN [S.messages[m] EXCEPT !.in_reply_to_id =
                    LookupParent(S.messages, hdrs, hdrs[m].in_reply_to)]
            ELSE S.messages[m]]]

-----------------------------------------------------------------------------
(* save_attachment *)

DigitChars == <<"0", "1", "2", "3", "4", "5", "6", "7", "8", "9">>

\* str(counter)
RECURSIVE Decimal(_)
Decimal(k) ==
    IF k < Len(DigitChars) THEN <<DigitChars[k + 1]>>
    ELSE Decimal(k \div Len(DigitChars)) \o <<DigitChars[(k % Len(DigitChars)) + 1]>>

LastIndexOf(s, c) ==
    IF c \in Range(s) THEN CHOOSE i \in 1..Len(s) :
                               s[i] = c /\ \A j \in (i + 1)..Len(s) : s[j] # c
    ELSE 0

\* os.path.splitext: the extension starts at the last dot of the last path
\* component, unless only dots precede it there.
splitext(p) ==
    LET sepIndex == LastIndexOf(p, "/")
        dotIndex == LastIndexOf(p, ".")
    IN  IF dotIndex > sepIndex
           /\ \E k \in (sepIndex + 1)..(dotIndex - 1) : p[k] # "."
        THEN [base |-> SubSeq(p, 1, dotIndex - 1), ext |-> SubSeq(p, dotIndex, Len(p))]
        ELSE [base |-> p, ext |-> <<>>]

\* attachment_exists / the loop condition of save_attachment
attachment_exists(atts, message_id, filename) ==
    \E i \in 1..Len(atts) :
        atts[i].message_id = message_id /\ atts[i].filename = filename

\* The while loop of save_attachment: the first free name among
\* filename, base(1)ext, base(2)ext, ...
\* (a loop whose first alternative name is base(2)ext)
RECURSIVE FreeFilenameFromTwo(_, _, _, _, _, _)
FreeFilenameFromTwo(atts, message_id, base, ext, filename, counter) ==
    IF attachment_exists(atts, message_id, filename)
    THEN FreeFilenameFromTwo(atts, message_id, base, ext,
                             base \o <<"(">> \o Decimal(counter + 1) \o <<")">> \o ext,
                             counter + 1)
    ELSE filename

RECURSIVE FreeFilename(_, _, _, _, _, _)
FreeFilename(atts, message_id, base, ext, filename, counter) ==
    IF attachment_exists(atts, message_id, filename)
    THEN FreeFilename(atts, message_id, base, ext,
                      base \o <<"(">> \o Decimal(counter) \o <<")">> \o ext,
                      counter + 1)
    ELSE filename

\* (a writer that replaces the row holding the same message_id and filename)
save_attachmentReplacing(S, attachment, t) ==
    LET row == [message_id |-> attachment.message_id,
                filename |-> attachment.filename,
                content_type |-> attachment.content_type,
                content |-> attachment.content,
                size |-> attachment.size,
                last_indexed |-> t]
        same(i) == /\ S.attachments[i].message_id = attachment.message_id
                   /\ S.attachments[i].filename = attachment.filename
    IN  IF attachment.message_id \notin DOMAIN S.messages
        THEN [store |-> S, raised |-> "IntegrityError"]
        ELSE IF \E i \in 1..Len(S.attachments) : same(i)
        THEN [store |->
                [S EXCEPT !.attachments =
                    [i \in 1..Len(@) |-> IF same(i) THEN row ELSE @[i]]],
              raised |-> "none"]
        ELSE [store |-> [S EXCEPT !.attachments = Append(@, row)],
              raised |-> "none"]

\* (a writer over a table that declares no foreign key on message_id)
save_attachmentUnowned(S, attachment, t) ==
    LET parts == splitext(attachment.filename)
        filename == FreeFilename(S.attachments, attachment.message_id,
                                 parts.base, parts.ext, attachment.filename, 1)
    IN  [store |->
            [S EXCEPT !.attachments = Append(@,
                [message_id |-> attachment.message_id,
                 filename |-> filename,
                 content_type |-> attachment.content_type,
                 content |-> attachment.content,
                 size |-> attachment.size,
                 last_indexed |-> t])],
         raised |-> "none"]

\* save_attachment(attachment) at clock value t.
save_attachment(S, attachment, t) ==
    LET parts == splitext(attachment.filename)
        filename == FreeFilename(S.attachments, attachment.message_id,
                                 parts.base, parts.ext, attachment.filename, 1)
    IN  \* Attachment.create: FOREIGN KEY (message_id) REFERENCES messages
        IF attachment.message_id \notin DOMAIN S.messages
        THEN [store |-> S, raised |-> "IntegrityError"]
        \* UNIQUE INDEX idx_attachment_message_filename
        ELSE IF attachment_exists(S.attachments, attachment.message_id, filename)
        THEN [store |-> S, raised |-> "IntegrityError"]
        ELSE [store |->
                [S EXCEPT !.attachments = Append(@,
                    [message_id |-> attachment.message_id,
                     filename |-> filename,
                     content_type |-> attachment.content_type,
                     content |-> attachment.content,
                     size |-> attachment.size,
                     last_indexed |-> t])],
              raised |-> "none"]

-----------------------------------------------------------------------------
(* Inputs *)

\* A ParsedMessage: content version v fills the copied columns with values
\* that differ from column to column and from version to version.
ColsOf(v) == [f \in MutableFields |-> ((v + FieldNo(f)) % MaxVal) + 1]

ParsedMessage(id, rfc822_message_id, in_reply_to, references, v) ==
    [id |-> id, rfc822_message_id |-> rfc822_message_id,
     in_reply_to |-> in_reply_to, references |-> references, cols |-> ColsOf(v)]

Ids == {<<"a">>, <<"b">>, <<"c">>}

\* In-Reply-To headers as they arrive: absent, clean, or with blank/bracket noise.
Noisy(id) == <<" ", "<">> \o id \o <<">", " ">>

\* The In-Reply-To headers tried for each id: a replies to nothing or to b,
\* b to a (clean or noisy), c to a or b; an empty header is tried too.
ReplyHeadersOf(id) ==
    CASE id = <<"a">> -> {Null, <<"b">>}
      [] id = <<"b">> -> {Null, <<"a">>, Noisy(<<"a">>)}
      [] OTHER -> {<<>>, <<"a">>, <<"b">>}

\* Message-ID of a message: absent (ParsedMessage's default), its own id (the
\* IMAP provider's ids are Message-IDs), or a Message-ID another message has too.
MessageIdsOf(id) ==
    CASE id = <<"a">> -> {Null, <<"a">>}
      [] id = <<"b">> -> {<<"b">>, <<"a">>}
      [] OTHER -> {id}

\* The References lists tried for each id: c arrives without the header or
\* naming a and an unknown message, the others without.
ReferenceHeadersOf(id) ==
    IF id = <<"c">> THEN {<<>>, <<<<"a">>, <<"x">>>>} ELSE {<<>>}

ThreadMessages ==
    UNION {{ParsedMessage(id, rfc, irt, refs, 1) :
                rfc \in MessageIdsOf(id), irt \in ReplyHeadersOf(id),
                refs \in ReferenceHeadersOf(id)} : id \in Ids}

ThreadClobbers == {{}, {"in_reply_to"}}

-----------------------------------------------------------------------------
(* Actions on the store *)

NoAlt == [pc |-> "off"]

NoRun == [pc |-> "off"]

Init ==
    /\ messages = <<>>
    /\ message_references = {}
    /\ attachments = <<>>
    /\ thread_headers = <<>>
    /\ now = 0
    /\ last = [op |-> "init"]
    /\ alt = NoAlt
    /\ run = NoRun

\* One call of db.create_message(msg, clobber).
CreateMessage(msg, clobber) ==
    /\ now < MaxTime
    /\ now' = now + 1
    /\ LET R == create_message(Store, msg, clobber, now + 1)
       IN  /\ messages' = R.store.messages
           /\ message_references' = R.store.message_references
           /\ attachments' = R.store.attachments
           /\ thread_headers' = RecordThreadHeaders(thread_headers, Store, R, msg)
           /\ last' = [op |-> "create_message", msg |-> msg, clobber |-> clobber,
                       time |-> now + 1, existed |-> msg.id \in DOMAIN messages,
                       raised |-> R.raised, prev |-> last.op]
    /\ UNCHANGED <<alt, run>>

\* One call of db.rebuild_threads().
RebuildThreads ==
    /\ now < MaxTime
    /\ now' = now + 1
    /\ LET S == rebuild_threads(Store, thread_headers)
       IN  /\ messages' = S.messages
           /\ message_references' = S.message_references
           /\ attachments' = S.attachments
    /\ last' = [op |-> "rebuild_threads", raised |-> "none", prev |-> last.op]
    /\ UNCHANGED <<thread_headers, alt, run>>

Next ==
    \/ \E msg \in ThreadMessages, clobber \in ThreadClobbers : CreateMessage(msg, clobber)
    \/ RebuildThreads

Spec == Init /\ [][Next]_vars

\* One call of db.save_attachment(attachment).
SaveAttachment(attachment) ==
    /\ now < MaxTime
    /\ now' = now + 1
    /\ LET R == save_attachment(Store, attachment, now + 1)
       IN  /\ messages' = R.store.messages
           /\ message_references' = R.store.message_references
           /\ attachments' = R.store.attachments
           /\ last' = [op |-> "save_attachment", attachment |-> attachment,
                       time |-> now + 1, raised |-> R.raised, prev |-> last.op]
    /\ UNCHANGED <<thread_headers, alt, run>>

-----------------------------------------------------------------------------
(* SpecUpsert: repeated upserts of two ids under every small clobber list *)

UpsertMessages ==
    {ParsedMessage(<<"a">>, Null, Null, <<>>, v) : v \in 1..MaxVal}
    \cup {ParsedMessage(<<"b">>, Null, <<"a">>, <<>>, 1)}

UpsertClobbers ==
    {c \in SUBSET MutableFields : Cardinality(c) <= MaxClobber} \cup {MutableFields}

NextUpsert ==
    /\ now < MaxUpserts
    /\ \E msg \in UpsertMessages, clobber \in UpsertClobbers :
          CreateMessage(msg, clobber)

SpecUpsert == Init /\ [][NextUpsert]_vars

-----------------------------------------------------------------------------
(* SpecAttach: attachments saved for two messages *)

AttachMessages == {ParsedMessage(id, Null, Null, <<>>, 1) : id \in {<<"a">>, <<"b">>}}

Attachment(message_id, filename, v) ==
    [message_id |-> message_id, filename |-> filename, content_type |-> "text/plain",
     content |-> v, size |-> v, attachment_id |-> Null]

AttachInputs ==
    {Attachment(<<"a">>, <<"f", ".", "t">>, v) : v \in 1..MaxVal}
    \cup {Attachment(<<"a">>, <<"f", "(", "1", ")", ".", "t">>, 1),
          Attachment(<<"a">>, <<".", "f">>, 1),
          Attachment(<<"b">>, <<"f", ".", "t">>, 1)}

NextAttach ==
    \/ \E msg \in AttachMessages : CreateMessage(msg, {})
    \/ \E attachment \in AttachInputs : SaveAttachment(attachment)

SpecAttach == Init /\ [][NextAttach]_vars

-----------------------------------------------------------------------------
(* SpecRefs: upserts of messages that carry References headers, and passes *)

\* The References lists tried: absent, empty, two ids, one id twice.
ReferenceLists ==
    {Null, <<>>, <<<<"x">>, <<"y">>>>, <<<<"y">>, <<"y">>>>, <<<<"z">>, <<"x">>>>}

\* a is upserted under every list and replies to nothing; b always names x
\* and y, and replies to nothing, to a, or to the unknown c.
RefMessages ==
    {ParsedMessage(<<"a">>, <<"a">>, Null, refs, 1) : refs \in ReferenceLists}
    \cup {ParsedMessage(<<"b">>, <<"b">>, irt, <<<<"x">>, <<"y">>>>, 1) :
                irt \in {Null, <<"a">>, <<"c">>}}

NextRefs ==
    \/ \E msg \in RefMessages : CreateMessage(msg, {})
    \/ RebuildThreads

SpecRefs == Init /\ [][NextRefs]_vars

-----------------------------------------------------------------------------
(* SpecOrder: the same messages ingested in two orders, into the store and  *)
(* into a second store, each followed by one reconstruction pass            *)

\* One message for each id of ids.
MessageChoices(ids) ==
    {ms \in SUBSET ThreadMessages :
        /\ {m.id : m \in ms} = ids
        /\ Cardinality(ms) = Cardinality(ids)}

\* The orders in which a set of messages can be ingested.
Orders(ms) ==
    {o \in [1..Cardinality(ms) -> ms] : \A i, j \in DOMAIN o : o[i] = o[j] => i = j}

InitOrder ==
    /\ messages = <<>>
    /\ message_references = {}
    /\ attachments = <<>>
    /\ thread_headers = <<>>
    /\ now = 0
    /\ last = [op |-> "init"]
    /\ \E ids \in SUBSET Ids \ {{}} : \E ms \in MessageChoices(ids) :
        \E o, p \in Orders(ms) :
            alt = [pc |-> "ingest", order |-> o, other |-> p,
                   store |-> EmptyStore, thread_headers |-> <<>>]
    /\ run = NoRun

\* create_message of the next message of each order, in its own store.
IngestBoth ==
    /\ alt.pc = "ingest"
    /\ now < Len(alt.order)
    /\ now' = now + 1
    /\ LET msg == alt.order[now + 1]
           R == create_message(Store, msg, {}, now + 1)
           msg2 == alt.other[now + 1]
           R2 == create_message(alt.store, msg2, {}, now + 1)
       IN  /\ messages' = R.store.messages
           /\ message_references' = R.store.message_references
           /\ attachments' = R.store.attachments
           /\ thread_headers' = RecordThreadHeaders(thread_headers, Store, R, msg)
           /\ last' = [op |-> "create_message", msg |-> msg, clobber |-> {},
                       time |-> now + 1, existed |-> msg.id \in DOMAIN messages,
                       raised |-> R.raised, prev |-> last.op]
           /\ alt' = [alt EXCEPT
                        !.store = R2.store,
                        !.thread_headers =
                            RecordThreadHeaders(alt.thread_headers, alt.store, R2, msg2)]
    /\ UNCHANGED run

\* rebuild_threads() once in each store, after the last message.
RebuildBoth ==
    /\ alt.pc = "ingest"
    /\ now = Len(alt.order)
    /\ LET S == rebuild_threads(Store, thread_headers)
       IN  /\ messages' = S.messages
           /\ message_references' = S.message_references
           /\ attachments' = S.attachments
    /\ last' = [op |-> "rebuild_threads", raised |-> "none", prev |-> last.op]
    /\ alt' = [alt EXCEPT !.pc = "rebuilt",
                          !.store = rebuild_threads(alt.store, alt.thread_headers)]
    /\ UNCHANGED <<thread_headers, now, run>>

NextOrder == IngestBoth \/ RebuildBoth

SpecOrder == InitOrder /\ [][NextOrder]_vars

\* The message rows of a store without the sync time and the row number.
Linkage(rows) ==
    [m \in DOMAIN rows |->
        [in_reply_to_id |-> rows[m].in_reply_to_id, cols |-> rows[m].cols]]

\* C5: whatever the two ingestion orders, after the pass both stores hold the
\* same message rows with the same in_reply_to_id links.
C5_OrderIndependent ==
    alt.pc = "rebuilt" =>
        /\ Linkage(messages) = Linkage(alt.store.messages)
        /\ message_references = alt.store.message_references

-----------------------------------------------------------------------------
(* Message timestamps and the watermarks *)

\* A datetime as parsedate_to_datetime gives it: the wall-clock reading of
\* the Date header and its zone designator ("" when the datetime is naive).
DateTime(wall, tzinfo) == [wall |-> wall, tzinfo |-> tzinfo]

\* None where a datetime is expected.
NoTime == [wall |-> 0, tzinfo |-> "None"]

UtcOffset(tzinfo) == IF tzinfo = "+02:00" THEN 2 ELSE 0

\* The point in time a datetime denotes (aware datetimes compare by it).
Instant(dt) == dt.wall - UtcOffset(dt.tzinfo)

\* The column holds the text val.isoformat(): ORDER BY timestamp compares the
\* wall-clock part first and then the designator, "" < "+00:00" < "+02:00".
TzRank(tzinfo) ==
    CASE tzinfo = "" -> 0
      [] tzinfo = "+00:00" -> 1
      [] OTHER -> 2

IsoBefore(d, e) ==
    \/ d.wall < e.wall
    \/ d.wall = e.wall /\ TzRank(d.tzinfo) < TzRank(e.tzinfo)

\* DateTimeField(formats=['%Y-%m-%dT%H:%M:%S']): a stored text that matches
\* the format is read back as a datetime, any other is read back as the str.
ReadAsDatetime(dt) == dt.tzinfo = ""

\* datetime.fromisoformat(msg.timestamp): a str is parsed, anything else
\* raises TypeError.
fromisoformat(dt) ==
    IF ReadAsDatetime(dt)
    THEN [value |-> NoTime, raised |-> "TypeError"]
    ELSE [value |-> dt, raised |-> "none"]

TimestampsOf(rows) == {rows[m].cols["timestamp"] : m \in DOMAIN rows}

\* db.last_indexed(): first row by timestamp descending.
last_indexed(rows) ==
    IF DOMAIN rows = {} THEN [value |-> NoTime, raised |-> "none"]
    ELSE fromisoformat(CHOOSE t \in TimestampsOf(rows) :
                            \A u \in TimestampsOf(rows) : ~IsoBefore(t, u))

\* db.first_indexed(): first row by timestamp ascending.
first_indexed(rows) ==
    IF DOMAIN rows = {} THEN [value |-> NoTime, raised |-> "none"]
    ELSE fromisoformat(CHOOSE t \in TimestampsOf(rows) :
                            \A u \in TimestampsOf(rows) : ~IsoBefore(u, t))

-----------------------------------------------------------------------------
(* The provider: a mailbox served in pages *)

MaxStamp == 3      \* wall-clock readings of the Date headers
PageSize == 2      \* max_results of list_messages
MaxRuns == 2       \* commands run in one behaviour of SpecSync
MaxFailures == 1   \* provider calls that fail in one behaviour of SpecSync

\* An attachment as the provider holds it.
Part(filename, data, attachment_id) ==
    [filename |-> filename, data |-> data, attachment_id |-> attachment_id]

MailItem(id, timestamp, parts) ==
    [id |-> id, timestamp |-> timestamp, parts |-> parts]

\* The accounts tried: a Gmail mailbox of three messages in one zone, the
\* second with two attachments of the same filename; an IMAP mailbox whose
\* two Date headers are in different zones; a mailbox with a naive Date; an
\* IMAP mailbox whose second message has no Message-ID header (its id is
\* the empty text).
Accounts ==
    {[provider_type |-> "gmail",
      mailbox |-> <<MailItem(<<"a">>, DateTime(1, "+00:00"), <<>>),
                    MailItem(<<"b">>, DateTime(2, "+00:00"),
                             <<Part(<<"f", ".", "t">>, 1, <<"p">>),
                               Part(<<"f", ".", "t">>, 2, <<"q">>)>>),
                    MailItem(<<"c">>, DateTime(MaxStamp, "+00:00"), <<>>)>>],
     [provider_type |-> "imap",
      mailbox |-> <<MailItem(<<"a">>, DateTime(MaxStamp, "+02:00"),
                             <<Part(<<"g">>, 1, Null)>>),
                    MailItem(<<"b">>, DateTime(2, "+00:00"), <<>>)>>],
     [provider_type |-> "gmail",
      mailbox |-> <<MailItem(<<"a">>, DateTime(1, ""), <<>>),
                    MailItem(<<"b">>, DateTime(2, "+00:00"), <<>>)>>],
     [provider_type |-> "imap",
      mailbox |-> <<MailItem(<<"a">>, DateTime(1, "+00:00"), <<>>),
                    MailItem(<<>>, DateTime(2, "+00:00"), <<>>)>>]}

\* provider.build_query: one term per bound that is given.  Gmail's terms
\* carry int(dt.timestamp()), IMAP's the date dt.strftime("%d-%b-%Y"), which
\* is the date of the wall-clock reading.
build_query(provider_type, after, before) ==
    IF provider_type = "gmail"
    THEN (IF after # NoTime
          THEN <<[key |-> "after", arg |-> Instant(after)]>> ELSE <<>>)
         \o (IF before # NoTime
             THEN <<[key |-> "before", arg |-> Instant(before)]>> ELSE <<>>)
    ELSE (IF after # NoTime
          THEN <<[key |-> "SINCE", arg |-> after.wall]>> ELSE <<>>)
         \o (IF before # NoTime
             THEN <<[key |-> "BEFORE", arg |-> before.wall]>> ELSE <<>>)

\* The terms of a query are alternatives (Gmail: " | ".join(query), IMAP:
\* "OR " + " OR ".join(query) + " NOT ALL"); no query lists the whole mailbox.
Matches(query, item) ==
    \/ query = Null
    \/ query = <<>>
    \/ \E k \in 1..Len(query) :
        \/ query[k].key = "after" /\ Instant(item.timestamp) >= query[k].arg
        \/ query[k].key = "before" /\ Instant(item.timestamp) < query[k].arg
        \/ query[k].key = "SINCE" /\ item.timestamp.wall >= query[k].arg
        \/ query[k].key = "BEFORE" /\ item.timestamp.wall < query[k].arg

\* The id a listing gives for a message.  IMAP lists the Message-ID header
\* and leaves out a message that has none (if msg_id: ...append); Gmail
\* lists its own ids, which are never empty.
ListedId(item) ==
    IF item.id # <<>> THEN <<item.id>> ELSE <<>>

RECURSIVE Select(_, _)
Select(mailbox, query) ==
    IF mailbox = <<>> THEN <<>>
    ELSE (IF Matches(query, Head(mailbox)) THEN ListedId(Head(mailbox)) ELSE <<>>)
         \o Select(Tail(mailbox), query)

\* The page token of the listing that starts at position k.
PageToken(k) == Decimal(k)

PageStart(mailbox, page_token) ==
    IF page_token = Null THEN 1
    ELSE CHOOSE k \in 1..(Len(mailbox) + 1) : PageToken(k) = page_token

\* provider.list_messages(query, page_token): the ids of one page and the
\* token of the next page, if there is one.
list_messages(mailbox, query, page_token) ==
    LET listed == Select(mailbox, query)
        first == PageStart(mailbox, page_token)
        end == IF first + PageSize - 1 < Len(listed)
               THEN first + PageSize - 1 ELSE Len(listed)
    IN  [messages |-> SubSeq(listed, first, end),
         nextPageToken |-> IF end < Len(listed) THEN PageToken(end + 1) ELSE Null]

\* The number of pages the provider serves for a query.
PageCount(mailbox, query) ==
    LET n == Len(Select(mailbox, query))
    IN  IF n = 0 THEN 1 ELSE (n + PageSize - 1) \div PageSize

\* The attachment dict the provider puts in msg.attachments: Gmail gives the
\* attachment id and no content, IMAP the content and no id.
AttachmentDict(provider_type, id, part) ==
    IF provider_type = "gmail"
    THEN [Attachment(id, part.filename, part.data) EXCEPT
            !.content = 0, !.attachment_id = part.attachment_id]
    ELSE Attachment(id, part.filename, part.data)

\* provider.get_message(id) for an id of the mailbox: the providers fill in
\* no threading header.
get_message(account, id) ==
    LET item == account.mailbox[CHOOSE k \in 1..Len(account.mailbox) :
                                    account.mailbox[k].id = id]
        msg == ParsedMessage(id, Null, Null, <<>>, 1)
    IN  [id |-> msg.id, rfc822_message_id |-> msg.rfc822_message_id,
         in_reply_to |-> msg.in_reply_to, references |-> msg.references,
         cols |-> [msg.cols EXCEPT !["timestamp"] = item.timestamp],
         attachments |-> [k \in 1..Len(item.parts) |->
                            AttachmentDict(account.provider_type, id, item.parts[k])]]

\* provider.get_attachment_content(message_id, attachment_id)
get_attachment_content(account, message_id, attachment_id) ==
    LET item == account.mailbox[CHOOSE k \in 1..Len(account.mailbox) :
                                    account.mailbox[k].id = message_id]
    IN  item.parts[CHOOSE k \in 1..Len(item.parts) :
                        item.parts[k].attachment_id = attachment_id].data

MailboxIds(account) == {account.mailbox[k].id : k \in 1..Len(account.mailbox)}

-----------------------------------------------------------------------------
(* sync.py *)

\* What process_attachments did from some attachment on, with the calls made
\* for the attachment before it added: fetched are the positions
\* get_attachment_content was called for, saved those save_attachment was
\* called for.
Called(R, fetched, saved) ==
    [store |-> R.store, fetched |-> R.fetched \cup fetched, saved |-> R.saved \cup saved]

\* (a loop that saves without asking whether the attachment is stored)
RECURSIVE process_attachmentsUnchecked(_, _, _, _, _, _)
process_attachmentsUnchecked(S, account, msg, idx, lost, t) ==
    IF idx > Len(msg.attachments) THEN [store |-> S, fetched |-> {}, saved |-> {}]
    ELSE LET attachment == msg.attachments[idx]
             content == get_attachment_content(account, msg.id, attachment.attachment_id)
             rest(T) == process_attachmentsUnchecked(T, account, msg, idx + 1, lost, t)
         IN  IF account.provider_type = "gmail" /\ Truthy(attachment.attachment_id)
             THEN IF idx \in lost
                  THEN Called(rest(S), {idx}, {})
                  ELSE Called(rest(save_attachment(
                                S, [attachment EXCEPT !.content = content], t).store),
                              {idx}, {idx})
             ELSE IF account.provider_type = "imap" /\ attachment.content # 0
             THEN Called(rest(save_attachment(S, attachment, t).store), {}, {idx})
             ELSE rest(S)

\* (a loop that fetches the content before asking whether the attachment is
\* stored)
RECURSIVE process_attachmentsFetchFirst(_, _, _, _, _, _)
process_attachmentsFetchFirst(S, account, msg, idx, lost, t) ==
    IF idx > Len(msg.attachments) THEN [store |-> S, fetched |-> {}, saved |-> {}]
    ELSE LET attachment == msg.attachments[idx]
             content == get_attachment_content(account, msg.id, attachment.attachment_id)
             rest(T) == process_attachmentsFetchFirst(T, account, msg, idx + 1, lost, t)
             exists == attachment_exists(S.attachments, msg.id, attachment.filename)
         IN  IF account.provider_type = "gmail" /\ Truthy(attachment.attachment_id)
             THEN IF idx \in lost \/ exists
                  THEN Called(rest(S), {idx}, {})
                  ELSE Called(rest(save_attachment(
                                S, [attachment EXCEPT !.content = content], t).store),
                              {idx}, {idx})
             ELSE IF account.provider_type = "imap" /\ attachment.content # 0 /\ ~exists
             THEN Called(rest(save_attachment(S, attachment, t).store), {}, {idx})
             ELSE rest(S)

\* process_attachments(provider, provider_type, msg) from attachment idx on;
\* lost holds the positions whose content the provider fails to return (the
\* call raises, or returns nothing).  An error of save_attachment is caught
\* and the loop goes on.
RECURSIVE process_attachments(_, _, _, _, _, _)
process_attachments(S, account, msg, idx, lost, t) ==
    IF idx > Len(msg.attachments) THEN [store |-> S, fetched |-> {}, saved |-> {}]
    ELSE LET attachment == msg.attachments[idx]
             content == get_attachment_content(account, msg.id, attachment.attachment_id)
             rest(T) == process_attachments(T, account, msg, idx + 1, lost, t)
         IN  IF attachment_exists(S.attachments, msg.id, attachment.filename)
             THEN rest(S)
             ELSE IF account.provider_type = "gmail" /\ Truthy(attachment.attachment_id)
             THEN IF idx \in lost
                  THEN Called(rest(S), {idx}, {})
                  ELSE Called(rest(save_attachment(
                                S, [attachment EXCEPT !.content = content], t).store),
                              {idx}, {idx})
             ELSE IF account.provider_type = "imap" /\ attachment.content # 0
             THEN Called(rest(save_attachment(S, attachment, t).store), {}, {idx})
             ELSE rest(S)

\* The positions whose content is fetched from the provider.
Fetched(account, msg) ==
    {k \in 1..Len(msg.attachments) :
        account.provider_type = "gmail" /\ Truthy(msg.attachments[k].attachment_id)}

\* One call made by the running command, in the order the calls are made:
\* kind is "list", "get", "upsert", "attach" or "rebuild", id the listed id
\* the call is about, ok whether it returned.
Event(kind, id, ok) == [kind |-> kind, id |-> id, ok |-> ok]

\* The state of main() between commands.
IdleRun(account) ==
    [pc |-> "idle", account |-> account, runs |-> 0, failures |-> 0,
     full_sync |-> FALSE, clobber |-> {}, download_attachments |-> FALSE,
     query |-> Null, page_token |-> Null,
     results |-> [messages |-> <<>>, nextPageToken |-> Null],
     i |-> 0, msg |-> [id |-> Null],
     build_query_calls |-> <<>>, list_calls |-> <<>>, get_calls |-> <<>>,
     auth |-> "none", auth_calls |-> 0, events |-> <<>>,
     failed |-> {}, outcome |-> "none", history |-> <<>>]

\* (a handler that ends the process at once, skipping the finally clause)
main_exitUnclosed(outcome) ==
    [closes |-> IF outcome = "interrupted" THEN 0 ELSE 1,
     status |-> IF outcome \in {"done", "interrupted"} THEN 0 ELSE 1]

\* How main() leaves its try statement when the command ended with outcome:
\* "done" is a return, "interrupted" a KeyboardInterrupt, anything else an
\* exception no handler of main catches.  except KeyboardInterrupt turns the
\* interrupt into sys.exit(0); the finally clause closes the connection on
\* every way out.
main_exit(outcome) ==
    LET leaving == IF outcome = "interrupted" THEN "SystemExit(0)" ELSE outcome
    IN  [closes |-> 1,
         status |-> IF leaving \in {"done", "SystemExit(0)"} THEN 0 ELSE 1]

\* The command ends: the outcome, the place it ended at, the way the
\* process exits and the store it leaves are kept.
EndRun(r, command, outcome, S) ==
    [r EXCEPT
        !.pc = "idle",
        !.outcome = outcome,
        !.history = Append(@, [command |-> command, outcome |-> outcome,
                               at |-> r.pc,
                               closes |-> main_exit(outcome).closes,
                               status |-> main_exit(outcome).status,
                               full_sync |-> r.full_sync, clobber |-> r.clobber,
                               download_attachments |-> r.download_attachments,
                               failed |-> r.failed, failures |-> r.failures,
                               store |-> S])]

\* (a loop that returns after its first page)
AfterPageReturn(r) == [r EXCEPT !.pc = "rebuild"]

\* The end of the while loop's body: the next page, or the return to main.
AfterPage(r) ==
    IF r.results.nextPageToken # Null
    THEN [r EXCEPT !.page_token = r.results.nextPageToken, !.pc = "list"]
    ELSE [r EXCEPT !.pc = "rebuild"]

\* (a loop that gives up the page at the first message that fails)
AfterFailureSkipPage(r) == AfterPage([r EXCEPT !.failed = @ \cup {r.results.messages[r.i]}])

\* (a loop that asks for the next page after every message)
AfterMessageNextPage(r) == AfterPage(r)

\* The end of the for loop's body: the next listed message, or the page's end.
AfterMessage(r) ==
    IF r.i < Len(r.results.messages)
    THEN [r EXCEPT !.i = @ + 1, !.pc = "fetch"]
    ELSE AfterPage(r)

\* (a loop that returns to main at the first message that fails)
AfterFailureReturn(r) ==
    [r EXCEPT !.failed = @ \cup {r.results.messages[r.i]}, !.pc = "rebuild"]

\* except IntegrityError / except Exception: the message is logged and the
\* loop goes on.
AfterFailure(r) == AfterMessage([r EXCEPT !.failed = @ \cup {r.results.messages[r.i]}])

\* The --clobber lists tried: none, a mutable field, a name that is an
\* attribute of Message and no key of message_data.
SyncClobbers == {{}, {"subject"}, {"in_reply_to"}}

\* (a factory that logs a failed login and returns the provider all the same)
get_providerLenient(provider_type, authenticates) ==
    [auth_calls |-> 1, raised |-> "none"]

\* get_provider(provider_type, data_dir): the provider is built and
\* provider.authenticate(data_dir) is called once; nothing catches what it
\* raises.  authenticates tells whether the login succeeds.
get_provider(provider_type, authenticates) ==
    IF provider_type \notin {"gmail", "imap"}
    THEN [auth_calls |-> 0, raised |-> "ValueError"]
    ELSE [auth_calls |-> 1,
          raised |-> IF authenticates THEN "none" ELSE "AuthError"]

\* (a query built from the watermarks whether or not --full-sync is given)
run_queryAlways(provider_type, full_sync, last_, first) ==
    IF last_ # NoTime \/ first # NoTime
    THEN [query |-> build_query(provider_type, last_, first),
          build_query_calls |-> <<[after |-> last_, before |-> first]>>]
    ELSE [query |-> Null, build_query_calls |-> <<>>]

\* The query of a run: none for a full sync and for a store without
\* messages, else provider.build_query(after=last, before=first).
run_query(provider_type, full_sync, last_, first) ==
    IF ~full_sync /\ (last_ # NoTime \/ first # NoTime)
    THEN [query |-> build_query(provider_type, last_, first),
          build_query_calls |-> <<[after |-> last_, before |-> first]>>]
    ELSE [query |-> Null, build_query_calls |-> <<>>]

\* (attachments are processed whenever the message has some)
WantsAttachmentsAlways(download_attachments, msg) == msg.attachments # <<>>

\* if download_attachments and msg.attachments
WantsAttachments(download_attachments, msg) ==
    download_attachments /\ msg.attachments # <<>>

\* A command of main() starts: the locals of the run and its call logs.
BeginRun(r, full_sync, clobber, download_attachments, authenticates) ==
    [r EXCEPT
        !.runs = @ + 1, !.full_sync = full_sync, !.clobber = clobber,
        !.download_attachments = download_attachments,
        !.failures = IF authenticates THEN @ ELSE @ + 1,
        !.auth = IF authenticates THEN "ok" ELSE "failed",
        !.auth_calls = get_provider(r.account.provider_type, authenticates).auth_calls,
        !.query = Null, !.page_token = Null,
        !.results = [messages |-> <<>>, nextPageToken |-> Null],
        !.i = 0, !.msg = [id |-> Null],
        !.build_query_calls = <<>>, !.list_calls = <<>>,
        !.get_calls = <<>>, !.events = <<>>, !.failed = {}, !.outcome = "none"]

\* all_messages up to the while loop: the provider and the query of the run.
StartSync(authenticates, full_sync, clobber, download_attachments) ==
    /\ run.pc = "idle"
    /\ run.runs < MaxRuns
    /\ authenticates \/ run.failures < MaxFailures
    /\ LET provider == get_provider(run.account.provider_type, authenticates)
           last_ == last_indexed(messages)
           first == first_indexed(messages)
           r == BeginRun(run, full_sync, clobber, download_attachments, authenticates)
           q == run_query(run.account.provider_type, full_sync, last_.value, first.value)
       IN  run' =
             IF provider.raised # "none"
             THEN EndRun(r, "sync", provider.raised, Store)
             ELSE IF ~full_sync /\ (last_.raised # "none" \/ first.raised # "none")
             THEN EndRun(r, "sync", "TypeError", Store)
             ELSE [r EXCEPT !.pc = "list", !.query = q.query,
                            !.build_query_calls = q.build_query_calls]
    /\ UNCHANGED <<messages, message_references, attachments, thread_headers,
                   now, last, alt>>

\* results = provider.list_messages(query=query, page_token=page_token)
ListMessages ==
    /\ run.pc = "list"
    /\ LET results == list_messages(run.account.mailbox, run.query, run.page_token)
           r == [run EXCEPT
                    !.results = results,
                    !.events = Append(@, Event("list", Null, TRUE)),
                    !.list_calls = Append(@, [query |-> run.query,
                                              page_token |-> run.page_token,
                                              nextPageToken |-> results.nextPageToken])]
       IN  run' = IF results.messages = <<>> THEN AfterPage(r)
                  ELSE [r EXCEPT !.i = 1, !.pc = "fetch"]
    /\ UNCHANGED <<messages, message_references, attachments, thread_headers,
                   now, last, alt>>

\* (a loop that logs a failed listing and returns to main)
ListMessagesFailsCaught ==
    /\ run.pc = "list"
    /\ run.failures < MaxFailures
    /\ run' = [run EXCEPT !.failures = @ + 1, !.pc = "rebuild"]
    /\ UNCHANGED <<messages, message_references, attachments, thread_headers,
                   now, last, alt>>

\* list_messages raises: nothing in all_messages catches it.
ListMessagesFails ==
    /\ run.pc = "list"
    /\ run.failures < MaxFailures
    /\ run' = EndRun([run EXCEPT !.failures = @ + 1,
                                 !.events = Append(@, Event("list", Null, FALSE))],
                     "sync", "error", Store)
    /\ UNCHANGED <<messages, message_references, attachments, thread_headers,
                   now, last, alt>>

\* msg = provider.get_message(m["id"])
GetMessage ==
    /\ run.pc = "fetch"
    /\ LET id == run.results.messages[run.i]
       IN  run' = [run EXCEPT !.msg = get_message(run.account, id),
                              !.get_calls = Append(@, id),
                              !.events = Append(@, Event("get", id, TRUE)),
                              !.pc = "upsert"]
    /\ UNCHANGED <<messages, message_references, attachments, thread_headers,
                   now, last, alt>>

\* get_message raises (the message vanished, the connection dropped).
GetMessageFails ==
    /\ run.pc = "fetch"
    /\ run.failures < MaxFailures
    /\ LET id == run.results.messages[run.i]
       IN  run' = AfterFailure([run EXCEPT !.failures = @ + 1,
                                           !.get_calls = Append(@, id),
                                           !.events = Append(@, Event("get", id, FALSE))])
    /\ UNCHANGED <<messages, message_references, attachments, thread_headers,
                   now, last, alt>>

\* db.create_message(msg, clobber)
Upsert ==
    /\ run.pc = "upsert"
    /\ now' = now + 1
    /\ LET msg == run.msg
           R == create_message(Store, msg, run.clobber, now + 1)
       IN  /\ messages' = R.store.messages
           /\ message_references' = R.store.message_references
           /\ attachments' = R.store.attachments
           /\ thread_headers' = RecordThreadHeaders(thread_headers, Store, R, msg)
           /\ last' = [op |-> "create_message", msg |-> msg, clobber |-> run.clobber,
                       time |-> now + 1, existed |-> msg.id \in DOMAIN messages,
                       raised |-> R.raised, prev |-> last.op]
           /\ run' = LET r == [run EXCEPT !.events =
                                    Append(@, Event("upsert", run.results.messages[run.i],
                                                    R.raised = "none"))]
                     IN  IF R.raised # "none" THEN AfterFailure(r)
                         ELSE IF WantsAttachments(run.download_attachments, msg)
                         THEN [r EXCEPT !.pc = "attach"]
                         ELSE AfterMessage(r)
    /\ UNCHANGED alt

\* process_attachments(provider, provider_type, msg)
ProcessAttachments ==
    /\ run.pc = "attach"
    /\ now' = now + 1
    /\ \E lost \in SUBSET Fetched(run.account, run.msg) :
        /\ run.failures + Cardinality(lost) <= MaxFailures
        /\ LET R == process_attachments(Store, run.account, run.msg, 1, lost, now + 1)
           IN  /\ messages' = R.store.messages
               /\ message_references' = R.store.message_references
               /\ attachments' = R.store.attachments
               /\ last' = [op |-> "process_attachments", msg |-> run.msg,
                           lost |-> lost, fetched |-> R.fetched, saved |-> R.saved,
                           time |-> now + 1, raised |-> "none", prev |-> last.op]
        /\ run' = AfterMessage([run EXCEPT
                    !.failures = @ + Cardinality(lost),
                    !.events = Append(@, Event("attach", run.results.messages[run.i], TRUE))])
    /\ UNCHANGED <<thread_headers, alt>>

\* main: db.rebuild_threads() after all_messages returns.
SyncRebuild ==
    /\ run.pc = "rebuild"
    /\ now' = now + 1
    /\ LET S == rebuild_threads(Store, thread_headers)
       IN  /\ messages' = S.messages
           /\ message_references' = S.message_references
           /\ attachments' = S.attachments
           /\ run' = EndRun([run EXCEPT !.events = Append(@, Event("rebuild", Null, TRUE))],
                            "sync", "done", S)
    /\ last' = [op |-> "rebuild_threads", raised |-> "none", prev |-> last.op]
    /\ UNCHANGED <<thread_headers, alt>>

\* KeyboardInterrupt during the sync command, raised between two calls of
\* all_messages or of main: no handler of sync.py catches it (they catch
\* Exception), main exits.
Interrupt ==
    /\ run.pc \in {"list", "fetch", "upsert", "attach", "rebuild"}
    /\ run' = EndRun(run, "sync", "interrupted", Store)
    /\ UNCHANGED <<messages, message_references, attachments, thread_headers,
                   now, last, alt>>

\* KeyboardInterrupt inside process_attachments, after the first k
\* attachments of the message were dealt with.
InterruptAttachments ==
    /\ run.pc = "attach"
    /\ now' = now + 1
    /\ \E k \in 1..(Len(run.msg.attachments) - 1) :
        LET part == [run.msg EXCEPT !.attachments = SubSeq(@, 1, k)]
            R == process_attachments(Store, run.account, part, 1, {}, now + 1)
        IN  /\ messages' = R.store.messages
            /\ message_references' = R.store.message_references
            /\ attachments' = R.store.attachments
            /\ last' = [op |-> "process_attachments", msg |-> part,
                        lost |-> {}, fetched |-> R.fetched, saved |-> R.saved,
                        time |-> now + 1, raised |-> "KeyboardInterrupt",
                        prev |-> last.op]
            /\ run' = EndRun([run EXCEPT !.events =
                                Append(@, Event("attach", run.results.messages[run.i], FALSE))],
                             "sync", "interrupted", R.store)
    /\ UNCHANGED <<thread_headers, alt>>

\* The sync-message command: single_message(provider_type, data_dir, id),
\* when get_message returns, or when the login fails.
SingleMessage(authenticates, id, clobber, download_attachments) ==
    /\ run.pc = "idle"
    /\ run.runs < MaxRuns
    /\ authenticates \/ run.failures < MaxFailures
    /\ LET provider == get_provider(run.account.provider_type, authenticates)
           b == BeginRun(run, FALSE, clobber, download_attachments, authenticates)
           msg == get_message(run.account, id)
           R == create_message(Store, msg, clobber, now + 1)
       IN  IF provider.raised # "none"
           THEN /\ run' = EndRun(b, "sync-message", provider.raised, Store)
                /\ UNCHANGED <<messages, message_references, attachments,
                               thread_headers, now, last>>
           ELSE \E lost \in SUBSET Fetched(run.account, msg) :
                LET wanted == R.raised = "none" /\ WantsAttachments(download_attachments, msg)
                    P == IF wanted
                         THEN process_attachments(R.store, run.account, msg, 1, lost, now + 1)
                         ELSE [store |-> R.store, fetched |-> {}, saved |-> {}]
                    r == [b EXCEPT
                            !.msg = msg,
                            !.get_calls = <<id>>,
                            !.events = <<Event("get", id, TRUE),
                                         Event("upsert", id, R.raised = "none")>>
                                       \o (IF wanted THEN <<Event("attach", id, TRUE)>>
                                           ELSE <<>>),
                            !.failures = @ + Cardinality(lost),
                            !.failed = IF R.raised # "none" THEN {id} ELSE {}]
                IN  /\ run.failures + Cardinality(lost) <= MaxFailures
                    /\ lost # {} => wanted
                    /\ now' = now + 1
                    /\ messages' = P.store.messages
                    /\ message_references' = P.store.message_references
                    /\ attachments' = P.store.attachments
                    /\ thread_headers' = RecordThreadHeaders(thread_headers, Store, R, msg)
                    /\ last' = [op |-> "create_message", msg |-> msg, clobber |-> clobber,
                                time |-> now + 1, existed |-> msg.id \in DOMAIN messages,
                                raised |-> R.raised, attached |-> wanted,
                                lost |-> lost, fetched |-> P.fetched, saved |-> P.saved,
                                prev |-> last.op]
                    /\ run' = EndRun(r, "sync-message", "done", P.store)
    /\ UNCHANGED alt

\* The sync-message command when get_message raises: the error is logged.
SingleMessageFails(id) ==
    /\ run.pc = "idle"
    /\ run.runs < MaxRuns
    /\ run.failures < MaxFailures
    /\ run' = EndRun([BeginRun(run, FALSE, {}, FALSE, TRUE) EXCEPT
                        !.failures = @ + 1, !.get_calls = <<id>>,
                        !.events = <<Event("get", id, FALSE)>>, !.failed = {id}],
                     "sync-message", "done", Store)
    /\ UNCHANGED <<messages, message_references, attachments, thread_headers,
                   now, last, alt>>

\* The rebuild-threads command.
RebuildCommand ==
    /\ run.pc = "idle"
    /\ run.runs < MaxRuns
    /\ now' = now + 1
    /\ LET S == rebuild_threads(Store, thread_headers)
       IN  /\ messages' = S.messages
           /\ message_references' = S.message_references
           /\ attachments' = S.attachments
           /\ run' = EndRun([run EXCEPT !.runs = @ + 1, !.failed = {},
                                         !.auth = "none", !.auth_calls = 0,
                                         !.events = <<Event("rebuild", Null, TRUE)>>],
                            "rebuild-threads", "done", S)
    /\ last' = [op |-> "rebuild_threads", raised |-> "none", prev |-> last.op]
    /\ UNCHANGED <<thread_headers, alt>>

InitSync ==
    /\ messages = <<>>
    /\ message_references = {}
    /\ attachments = <<>>
    /\ thread_headers = <<>>
    /\ now = 0
    /\ last = [op |-> "init"]
    /\ alt = NoAlt
    /\ \E account \in Accounts : run = IdleRun(account)

NextSync ==
    \/ \E authenticates \in BOOLEAN, full_sync \in BOOLEAN,
          clobber \in SyncClobbers, download_attachments \in BOOLEAN :
            StartSync(authenticates, full_sync, clobber, download_attachments)
    \/ ListMessages
    \/ ListMessagesFails
    \/ GetMessage
    \/ GetMessageFails
    \/ Upsert
    \/ ProcessAttachments
    \/ SyncRebuild
    \/ Interrupt
    \/ InterruptAttachments
    \/ \E authenticates \in BOOLEAN, id \in MailboxIds(run.account) \ {<<>>},
          clobber \in SyncClobbers, download_attachments \in BOOLEAN :
            SingleMessage(authenticates, id, clobber, download_attachments)
    \/ \E id \in MailboxIds(run.account) \ {<<>>} : SingleMessageFails(id)
    \/ RebuildCommand

SpecSync == InitSync /\ [][NextSync]_vars

-----------------------------------------------------------------------------
(* Properties of upserts and thread reconstruction, over Spec *)

\* The last call was create_message with a clobber list within the ten
\* mutable field names.
Upserted ==
    last.op = "create_message" /\ last.clobber \subseteq MutableFields

\* The messages whose Message-ID is the normalized header.
ParentsNamedBy(raw) ==
    {p \in DOMAIN messages : thread_headers[p].rfc822_message_id = Normalize(raw)}

\* C3: right after rebuild_threads(), a stored message with a non-empty
\* in_reply_to header is linked to a stored message whose Message-ID is the
\* normalized header, or to nothing when no such message is stored; a stored
\* message without the header is linked to nothing.
C3_ThreadLinkingRule ==
    last.op = "rebuild_threads" =>
        \A m \in DOMAIN messages :
            LET raw == thread_headers[m].in_reply_to
                link == messages[m].in_reply_to_id
            IN  IF Truthy(raw) /\ ParentsNamedBy(raw) # {}
                THEN link \in ParentsNamedBy(raw)
                ELSE link = Null

\* C4: a rebuild_threads() that directly follows a rebuild_threads() changes
\* no row of any table.
C4_RebuildIdempotent ==
    [][(last.op = "rebuild_threads" /\ last'.op = "rebuild_threads")
        => Store' = Store]_vars

\* Two passes in a row, the first of which moved a link away from the value
\* the row was inserted with.
C4_Witness ==
    /\ last.op = "rebuild_threads"
    /\ last.prev = "rebuild_threads"
    /\ \E m \in DOMAIN messages :
        /\ messages[m].in_reply_to_id # Null
        /\ messages[m].in_reply_to_id # thread_headers[m].in_reply_to

\* C6: every in_reply_to_id is null or the message_id of a stored row.
C6_NoDanglingParent ==
    \A m \in DOMAIN messages :
        messages[m].in_reply_to_id = Null
        \/ messages[m].in_reply_to_id \in DOMAIN messages

\* A link to another row exists after a pass, and an upsert naming an absent
\* parent has just been refused.
C6_Witness ==
    /\ last.op = "create_message"
    /\ last.raised = "IntegrityError"
    /\ \E m \in DOMAIN messages :
        messages[m].in_reply_to_id \notin {Null, m}

\* C7: create_message of an id that has no row inserts the row with the
\* message's fields, whatever in_reply_to names.
C7_InsertAlwaysSucceeds ==
    (Upserted /\ ~last.existed) =>
        /\ last.raised = "none"
        /\ last.msg.id \in DOMAIN messages
        /\ messages[last.msg.id].cols = last.msg.cols

\* C8: create_message leaves in_reply_to_id null on insert and unchanged on
\* conflict.
C8_UpsertNeverWritesParentLink ==
    [][(last'.op = "create_message" /\ last'.clobber \subseteq MutableFields)
        => \A m \in DOMAIN messages' :
              messages'[m].in_reply_to_id =
                  IF m \in DOMAIN messages THEN messages[m].in_reply_to_id ELSE Null]_vars

-----------------------------------------------------------------------------
(* Properties of the upsert's conflict handling, over SpecUpsert *)

\* C1: create_message with an empty clobber list on an id that has a row
\* returns and leaves every column of the row but last_indexed as it was.
C1_UpsertIdempotent ==
    [][(/\ last'.op = "create_message"
        /\ last'.clobber = {}
        /\ last'.msg.id \in DOMAIN messages)
        => /\ last'.raised = "none"
           /\ messages' =
                [messages EXCEPT ![last'.msg.id].last_indexed =
                                    messages'[last'.msg.id].last_indexed]]_vars

\* A second call with no clobber list carried other values than the stored
\* ones, and only last_indexed took the time of that call.
C1_Witness ==
    /\ last.op = "create_message"
    /\ last.existed
    /\ last.clobber = {}
    /\ last.raised = "none"
    /\ \A f \in MutableFields : last.msg.cols[f] # messages[last.msg.id].cols[f]
    /\ messages[last.msg.id].last_indexed = last.time

\* C2: on conflict, create_message writes the message's value into each
\* column named in clobber, keeps every other mutable column, and sets
\* last_indexed to the time of the call.
C2_ClobberSemantics ==
    [][(/\ last'.op = "create_message"
        /\ last'.clobber \subseteq MutableFields
        /\ last'.msg.id \in DOMAIN messages)
        => /\ last'.raised = "none"
           /\ \A f \in MutableFields :
                messages'[last'.msg.id].cols[f] =
                    IF f \in last'.clobber
                    THEN last'.msg.cols[f]
                    ELSE messages[last'.msg.id].cols[f]
           /\ messages'[last'.msg.id].last_indexed = last'.time]_vars

\* A conflict whose clobber list names some columns and not others: a named
\* column holds the new value, an unnamed one still differs from it.
C2_Witness ==
    /\ last.op = "create_message"
    /\ last.existed
    /\ last.raised = "none"
    /\ \E f \in last.clobber : messages[last.msg.id].cols[f] = last.msg.cols[f]
    /\ \E g \in MutableFields \ last.clobber :
          messages[last.msg.id].cols[g] # last.msg.cols[g]
    /\ messages[last.msg.id].last_indexed = last.time

-----------------------------------------------------------------------------
(* Properties of the attachment store, over SpecAttach *)

\* base(k)ext for the filename of an attachment.
Renamed(filename, k) ==
    splitext(filename).base \o <<"(">> \o Decimal(k) \o <<")">> \o splitext(filename).ext

\* The name a new attachment is to get among the rows atts: its own
\* filename when free for its message, else base(k)ext for the least k >= 1
\* that is free (one of 1..Len(atts)+1 is).
ExpectedFilename(atts, attachment) ==
    LET taken(name) == \E i \in 1..Len(atts) :
                           /\ atts[i].message_id = attachment.message_id
                           /\ atts[i].filename = name
        free == {k \in 1..(Len(atts) + 1) : ~taken(Renamed(attachment.filename, k))}
    IN  IF ~taken(attachment.filename) THEN attachment.filename
        ELSE Renamed(attachment.filename, CHOOSE k \in free : \A j \in free : k <= j)

\* C9: save_attachment for a stored message returns and appends a row that
\* holds the call's content under the attachment's own filename if that is
\* free for the message, else under base(k)ext for the smallest free k >= 1.
C9_CollisionRenaming ==
    [][(/\ last'.op = "save_attachment"
        /\ last'.attachment.message_id \in DOMAIN messages)
        => /\ last'.raised = "none"
           /\ Len(attachments') = Len(attachments) + 1
           /\ LET new == attachments'[Len(attachments')]
              IN  /\ new.message_id = last'.attachment.message_id
                  /\ new.content = last'.attachment.content
                  /\ new.filename = ExpectedFilename(attachments, last'.attachment)]_vars

\* Three saves of (a, f.t) in a row left f.t, f(1).t and f(2).t, each with
\* the content of its own call.
C9_Witness ==
    /\ Len(attachments) = 3
    /\ \A i \in 1..3 : attachments[i].message_id = <<"a">>
    /\ attachments[1].filename = <<"f", ".", "t">>
    /\ attachments[2].filename = <<"f", "(", "1", ")", ".", "t">>
    /\ attachments[3].filename = <<"f", "(", "2", ")", ".", "t">>
    /\ attachments[1].content = 1
    /\ attachments[2].content = 2
    /\ attachments[3].content = 1
    /\ last.op = "save_attachment"
    /\ last.attachment.filename = <<"f", ".", "t">>
    /\ last.prev = "save_attachment"

UniqueFilenames ==
    \A i, j \in 1..Len(attachments) :
        (/\ attachments[i].message_id = attachments[j].message_id
         /\ attachments[i].filename = attachments[j].filename) => i = j

\* C10: no two attachment rows share (message_id, filename), and a
\* save_attachment that returns adds one row and changes no earlier row.
C10_AttachmentStoreInvariant ==
    /\ []UniqueFilenames
    /\ [][(last'.op = "save_attachment" /\ last'.raised = "none")
            => /\ Len(attachments') = Len(attachments) + 1
               /\ \A i \in 1..Len(attachments) : attachments'[i] = attachments[i]]_vars

\* A save whose filename was taken for its message returned, next to a row
\* of another message under the same filename.
C10_Witness ==
    /\ last.op = "save_attachment"
    /\ last.raised = "none"
    /\ attachments[Len(attachments)].filename # last.attachment.filename
    /\ \E i, j \in 1..Len(attachments) :
        /\ attachments[i].filename = attachments[j].filename
        /\ attachments[i].message_id # attachments[j].message_id

\* C11: save_attachment for a message_id that has no message row raises
\* IntegrityError and leaves the three tables as they were.
C11_AttachmentNeedsMessage ==
    [][(/\ last'.op = "save_attachment"
        /\ last'.attachment.message_id \notin DOMAIN messages)
        => /\ last'.raised = "IntegrityError"
           /\ Store' = Store]_vars

\* A save for message b was refused while b had no row and message a held
\* attachments, one of them under the refused filename.
C11_Witness ==
    /\ last.op = "save_attachment"
    /\ last.raised = "IntegrityError"
    /\ last.attachment.message_id \notin DOMAIN messages
    /\ \E i \in 1..Len(attachments) :
          attachments[i].filename = last.attachment.filename

-----------------------------------------------------------------------------
(* Properties of the reference log, over SpecRefs *)

\* The refers_to_id values of the rows a message owns.
ReferencesOf(refs, id) == {r[2] : r \in {x \in refs : x[1] = id}}

\* The ids a message points to: its References entries and its In-Reply-To.
PointedTo(msg) ==
    (IF Truthy(msg.references) THEN Range(msg.references) ELSE {})
    \cup (IF Truthy(msg.in_reply_to) THEN {msg.in_reply_to} ELSE {})

\* C17: after create_message(m) returns, m's reference rows hold every id of
\* m.references and m.in_reply_to when it is non-empty; a new message that
\* points to nothing owns no reference row.
C17_ReferenceRowsWritten ==
    (last.op = "create_message" /\ last.raised = "none") =>
        /\ PointedTo(last.msg) \subseteq ReferencesOf(message_references, last.msg.id)
        /\ (~last.existed /\ PointedTo(last.msg) = {}) =>
                ReferencesOf(message_references, last.msg.id) = {}

\* C18: a create_message on an id that has a row returns; a create_message
\* that returns adds to message_references exactly the pairs of its own
\* References entries that are not there yet, and no other step changes the
\* table; every row is owned by a stored message.
C18_ReferencesAppendOnly ==
    /\ [](\A r \in message_references : r[1] \in DOMAIN messages)
    /\ [][/\ (last'.op = "create_message" /\ last'.msg.id \in DOMAIN messages)
                => last'.raised = "none"
            /\ message_references' =
                 IF last'.op = "create_message" /\ last'.raised = "none"
                      /\ Truthy(last'.msg.references)
                 THEN message_references
                        \cup {<<last'.msg.id, r>> : r \in Range(last'.msg.references)}
                 ELSE message_references]_vars

\* b, whose every upsert names x and y, was upserted again after a pass; and
\* a owns x, y and z, the union of the lists of its upserts.
C18_Witness ==
    /\ last.op = "create_message"
    /\ last.msg.id = <<"b">>
    /\ last.existed
    /\ last.raised = "none"
    /\ last.prev = "rebuild_threads"
    /\ ReferencesOf(message_references, <<"b">>) = {<<"x">>, <<"y">>}
    /\ ReferencesOf(message_references, <<"a">>) = {<<"x">>, <<"y">>, <<"z">>}

-----------------------------------------------------------------------------
(* SpecLate: a reply is synced and a pass runs before its parent is synced *)

\* The replies tried name the Message-ID a, clean or with noise; the parent
\* carries that Message-ID under its own id or under a provider id.
LateChildren ==
    {ParsedMessage(<<"b">>, <<"b">>, irt, <<>>, 1) : irt \in {<<"a">>, Noisy(<<"a">>)}}

LateParents ==
    {ParsedMessage(id, <<"a">>, Null, <<>>, v) : id \in {<<"a">>, <<"p">>}, v \in 1..MaxVal}

LateOthers == {ParsedMessage(<<"c">>, <<"c">>, Null, <<>>, v) : v \in 1..MaxVal}

InitLate ==
    /\ messages = <<>>
    /\ message_references = {}
    /\ attachments = <<>>
    /\ thread_headers = <<>>
    /\ now = 0
    /\ last = [op |-> "init"]
    /\ alt = NoAlt
    /\ \E child \in LateChildren, parent \in LateParents :
        run = [pc |-> "late", phase |-> "start", child |-> child, parent |-> parent]

\* create_message(msg), moving the scenario from one phase to the next.
LateUpsert(msg, from, to) ==
    /\ run.pc = "late"
    /\ run.phase = from
    /\ now' = now + 1
    /\ LET R == create_message(Store, msg, {}, now + 1)
       IN  /\ messages' = R.store.messages
           /\ message_references' = R.store.message_references
           /\ attachments' = R.store.attachments
           /\ thread_headers' = RecordThreadHeaders(thread_headers, Store, R, msg)
           /\ last' = [op |-> "create_message", msg |-> msg, clobber |-> {},
                       time |-> now + 1, existed |-> msg.id \in DOMAIN messages,
                       raised |-> R.raised, prev |-> last.op]
    /\ run' = [run EXCEPT !.phase = to]
    /\ UNCHANGED alt

\* rebuild_threads(), moving the scenario from one phase to the next.
LateRebuild(from, to) ==
    /\ run.pc = "late"
    /\ run.phase = from
    /\ now' = now + 1
    /\ LET S == rebuild_threads(Store, thread_headers)
       IN  /\ messages' = S.messages
           /\ message_references' = S.message_references
           /\ attachments' = S.attachments
    /\ last' = [op |-> "rebuild_threads", raised |-> "none", prev |-> last.op]
    /\ run' = [run EXCEPT !.phase = to]
    /\ UNCHANGED <<thread_headers, alt>>

\* The reply is upserted while its parent has no row.
LateChild == LateUpsert(run.child, "start", "child")

\* A pass runs while the parent has no row.
LateOrphanPass == LateRebuild("child", "orphan")

\* The parent is upserted.
LateParent == LateUpsert(run.parent, "orphan", "parent")

\* A pass runs after the parent arrived.
LateLinkPass == LateRebuild("parent", "linked")

\* An unrelated message is upserted at any point.
LateOther ==
    /\ now < MaxTime
    /\ \E msg \in LateOthers : LateUpsert(msg, run.phase, run.phase)

NextLate ==
    \/ LateChild
    \/ LateOrphanPass
    \/ LateParent
    \/ LateLinkPass
    \/ LateOther

SpecLate == InitLate /\ [][NextLate]_vars

\* C20: when the reply was upserted and a pass ran before the parent was
\* upserted, the pass that follows the parent's upsert leaves the reply
\* stored with in_reply_to_id equal to the parent's id.
C20_LateParentLinked ==
    (run.pc = "late" /\ run.phase = "linked") =>
        /\ run.child.id \in DOMAIN messages
        /\ messages[run.child.id].in_reply_to_id = run.parent.id

-----------------------------------------------------------------------------
(* Properties of the sync command, over SpecSync *)

InSync == run.pc \in {"list", "fetch", "upsert", "attach", "rebuild"}

\* The last command run, or being run, is sync.
SyncStarted ==
    \/ InSync
    \/ /\ run.pc = "idle"
       /\ run.history # <<>>
       /\ run.history[Len(run.history)].command = "sync"

\* The store as the last command found it.
StartStore ==
    LET n == IF InSync THEN Len(run.history) ELSE Len(run.history) - 1
    IN  IF n = 0 THEN EmptyStore ELSE run.history[n].store

Instants(rows) == {Instant(t) : t \in TimestampsOf(rows)}

\* C12: a sync without --full-sync over a store that holds messages calls
\* build_query once, with after the newest and before the oldest stored
\* message timestamp, and every list_messages call of the run gets the
\* query it returned.
C12_IncrementalQuery ==
    (SyncStarted /\ ~run.full_sync /\ DOMAIN StartStore.messages # {}) =>
        /\ Len(run.build_query_calls) = 1
        /\ \A t \in Instants(StartStore.messages) :
            /\ t <= Instant(run.build_query_calls[1].after)
            /\ t >= Instant(run.build_query_calls[1].before)
        /\ \A k \in 1..Len(run.list_calls) :
            run.list_calls[k].query =
                build_query(run.account.provider_type,
                            run.build_query_calls[1].after,
                            run.build_query_calls[1].before)

\* C13: the first list_messages call of a run carries no page token, every
\* further call carries the nextPageToken of the response before it, no call
\* follows a response without one, and a run that returns made as many calls
\* as the provider serves pages; every run ends.
C13_PaginationProtocol ==
    /\ [](SyncStarted =>
            LET calls == run.list_calls
            IN  /\ calls # <<>> => calls[1].page_token = Null
                /\ \A k \in 2..Len(calls) :
                    /\ calls[k - 1].nextPageToken # Null
                    /\ calls[k].page_token = calls[k - 1].nextPageToken
                /\ Len(calls) <= PageCount(run.account.mailbox, run.query)
                /\ (run.pc = "rebuild" \/ run.outcome = "done") =>
                    /\ Len(calls) = PageCount(run.account.mailbox, run.query)
                    /\ calls[Len(calls)].nextPageToken = Null)
    /\ (InSync ~> (run.pc = "idle"))

\* A run returned after more than one list call, the last with the token of
\* the first response, and fetched more ids than one page holds.
C13_Witness ==
    /\ run.pc = "idle"
    /\ SyncStarted
    /\ run.outcome = "done"
    /\ Len(run.list_calls) > 1
    /\ run.list_calls[1].nextPageToken # Null
    /\ run.list_calls[Len(run.list_calls)].page_token = run.list_calls[1].nextPageToken
    /\ Len(run.get_calls) > PageSize

\* C14: in a sync run that returns, get_message was called for every listed
\* id of every page, in order, and every id whose fetch and upsert did not
\* fail has a row.
C14_FailureIsolation ==
    (SyncStarted /\ run.outcome = "done") =>
        /\ run.get_calls = Select(run.account.mailbox, run.query)
        /\ \A id \in Range(run.get_calls) \ run.failed : id \in DOMAIN messages

\* A run returned in which the fetch of the first listed id failed and the
\* ids listed after it, on both pages, were stored.
C14_Witness ==
    /\ run.pc = "idle"
    /\ SyncStarted
    /\ run.outcome = "done"
    /\ run.full_sync
    /\ run.failures > 0
    /\ run.failed = {run.get_calls[1]}
    /\ Len(run.get_calls) > PageSize
    /\ DOMAIN messages = Range(run.get_calls) \ run.failed

\* Run k of the history is a full sync that returned and met no provider
\* failure.
CleanFullSync(k) ==
    /\ run.history[k].command = "sync"
    /\ run.history[k].outcome = "done"
    /\ run.history[k].full_sync
    /\ run.history[k].failures = IF k = 1 THEN 0 ELSE run.history[k - 1].failures

\* C15: a full sync that directly follows a full sync with the same options,
\* neither meeting a provider failure, leaves the message rows (but for
\* last_indexed), the reference rows and the attachment rows of the first.
C15_RerunConverges ==
    \A k \in 2..Len(run.history) :
        (/\ CleanFullSync(k - 1)
         /\ CleanFullSync(k)
         /\ run.history[k].clobber = run.history[k - 1].clobber
         /\ run.history[k].download_attachments
                = run.history[k - 1].download_attachments)
        => /\ Linkage(run.history[k].store.messages)
                = Linkage(run.history[k - 1].store.messages)
           /\ run.history[k].store.message_references
                = run.history[k - 1].store.message_references
           /\ run.history[k].store.attachments
                = run.history[k - 1].store.attachments

\* Two full syncs with attachment download ran one after the other over the
\* mailbox whose message b has attachments, and rows are stored.
C15_Witness ==
    /\ run.pc = "idle"
    /\ Len(run.history) = 2
    /\ CleanFullSync(1)
    /\ CleanFullSync(2)
    /\ run.history[1].clobber = {}
    /\ run.history[2].clobber = {}
    /\ run.history[1].download_attachments
    /\ run.history[2].download_attachments
    /\ attachments # <<>>
    /\ Cardinality(DOMAIN messages) > PageSize

\* C16: a sync without --full-sync that returns without any failure, run
\* directly after a sync that was interrupted or in which some id failed,
\* leaves a row for every message of the mailbox that has a Message-ID.
C16_PartialRunResumable ==
    \A k \in 2..Len(run.history) :
        (/\ run.history[k - 1].command = "sync"
         /\ \/ run.history[k - 1].outcome = "interrupted"
            \/ run.history[k - 1].failed # {}
         /\ run.history[k].command = "sync"
         /\ run.history[k].outcome = "done"
         /\ ~run.history[k].full_sync
         /\ run.history[k].failed = {}
         /\ run.history[k].failures = run.history[k - 1].failures)
        => DOMAIN run.history[k].store.messages = MailboxIds(run.account) \ {<<>>}

\* C19: no step removes a message row or gives a stored message_id another
\* row; a create_message that returns leaves a row for its id and is the
\* only step that adds one; no two message_ids share a row.
C19_OneRowPerMessage ==
    /\ [](\A m, n \in DOMAIN messages : messages[m].id = messages[n].id => m = n)
    /\ [][/\ DOMAIN messages \subseteq DOMAIN messages'
          /\ \A m \in DOMAIN messages : messages'[m].id = messages[m].id
          /\ (now' # now /\ last'.op = "create_message" /\ last'.raised = "none")
                => last'.msg.id \in DOMAIN messages'
          /\ DOMAIN messages' # DOMAIN messages
                => /\ now' # now
                   /\ last'.op = "create_message"
                   /\ DOMAIN messages' = DOMAIN messages \cup {last'.msg.id}]_vars

\* After two sync runs that returned, the second re-upserting what the first
\* stored, the store holds one row for each message of the mailbox.
C19_Witness ==
    /\ run.pc = "idle"
    /\ Len(run.history) = MaxRuns
    /\ run.history[1].command = "sync"
    /\ run.history[1].outcome = "done"
    /\ run.history[MaxRuns].command = "sync"
    /\ run.history[MaxRuns].outcome = "done"
    /\ last.op = "rebuild_threads"
    /\ DOMAIN messages = MailboxIds(run.account)
    /\ {messages[m].id : m \in DOMAIN messages} = 1..Cardinality(DOMAIN messages)
    /\ \E m \in DOMAIN messages : messages[m].last_indexed > Cardinality(DOMAIN messages)

\* The sync command's steps are taken when they can be: the run is a
\* sequential program that is not blocked.
SpecSyncFair ==
    SpecSync
    /\ WF_vars(ListMessages \/ GetMessage \/ Upsert \/ ProcessAttachments \/ SyncRebuild)

-----------------------------------------------------------------------------
(* Properties of interruption, over SpecSync *)

\* The entry of the command that ended last.
LastRun == run.history[Len(run.history)]

\* The step ends a command.
Ends == Len(run'.history) > Len(run.history)

\* C21: when KeyboardInterrupt ends a sync run, at whatever place, the
\* connection is closed once, the exit status is 0, and every message,
\* reference and attachment row stored before is in the store left behind.
C21_CleanInterruption ==
    [][(Ends /\ run'.outcome = "interrupted") =>
        LET e == run'.history[Len(run'.history)]
        IN  /\ e.closes = 1
            /\ e.status = 0
            /\ \A m \in DOMAIN messages :
                m \in DOMAIN messages' /\ messages'[m] = messages[m]
            /\ message_references \subseteq message_references'
            /\ Len(attachments) <= Len(attachments')
            /\ \A i \in 1..Len(attachments) : attachments'[i] = attachments[i]
            /\ e.store.messages = messages'
            /\ e.store.attachments = attachments']_vars

\* A run was interrupted inside process_attachments after it had stored a
\* message and saved the first of its attachments.
C21_Witness ==
    /\ run.pc = "idle"
    /\ run.outcome = "interrupted"
    /\ LastRun.at = "attach"
    /\ last.op = "process_attachments"
    /\ last.raised = "KeyboardInterrupt"
    /\ last.saved # {}
    /\ attachments # <<>>
    /\ DOMAIN messages # {}

\* C22: an interrupt stops a sync run only between two messages: never
\* after a message was fetched and before it is upserted, nor after its
\* upsert and before its requested attachments are processed.
C22_InterruptBetweenMessages ==
    \A k \in 1..Len(run.history) :
        run.history[k].outcome = "interrupted"
            => run.history[k].at \notin {"upsert", "attach"}

-----------------------------------------------------------------------------
(* Properties of what a sync mirrors, over SpecSync *)

\* The mailbox message has a row: under its Message-ID, or, when it has
\* none, under an id that is no Message-ID of the mailbox.
Mirrored(item, rows) ==
    IF item.id # <<>> THEN item.id \in DOMAIN rows
    ELSE \E m \in DOMAIN rows :
            /\ m \notin MailboxIds(run.account)
            /\ rows[m].cols["timestamp"] = item.timestamp

\* C23: a full sync that returns without a failure leaves a row for every
\* message of the mailbox, a message without Message-ID included.
C23_NoMessageIdMirrored ==
    \A k \in 1..Len(run.history) :
        (CleanFullSync(k) /\ run.history[k].failed = {})
            => \A i \in 1..Len(run.account.mailbox) :
                Mirrored(run.account.mailbox[i], run.history[k].store.messages)

\* The parts of the mailbox message msg was parsed from.
PartsOf(msg) ==
    run.account.mailbox[CHOOSE k \in 1..Len(run.account.mailbox) :
                            run.account.mailbox[k].id = msg.id].parts

\* C24: when process_attachments returns and the provider returned every
\* content, each attachment of the message is stored for it, two
\* attachments of one filename included.
C24_SharedFilenameKept ==
    (last.op = "process_attachments" /\ last.raised = "none" /\ last.lost = {}) =>
        \A i \in 1..Len(PartsOf(last.msg)) :
            \E j \in 1..Len(attachments) :
                /\ attachments[j].message_id = last.msg.id
                /\ attachments[j].content = PartsOf(last.msg)[i].data

\* The step ran process_attachments, in a sync run or for sync-message.
ProcessedAttachments ==
    /\ now' # now
    /\ \/ last'.op = "process_attachments"
       \/ last'.op = "create_message" /\ Ends /\ last'.attached

\* C26: process_attachments calls neither get_attachment_content nor
\* save_attachment for an attachment whose (message id, filename) has a row
\* when its turn comes, and leaves the rows of that pair alone; for a pair
\* without a row whose content is available it calls save_attachment and the
\* pair has one row afterwards; it adds one row for each save.
C26_KnownAttachmentsSkipped ==
    [][ProcessedAttachments =>
        LET msg == last'.msg
            n == Len(msg.attachments)
            hasRow(i) ==
                \/ attachment_exists(attachments, msg.id, msg.attachments[i].filename)
                \/ \E j \in 1..(i - 1) :
                    /\ msg.attachments[j].filename = msg.attachments[i].filename
                    /\ j \in last'.saved
            available(i) ==
                IF run.account.provider_type = "gmail"
                THEN Truthy(msg.attachments[i].attachment_id) /\ i \notin last'.lost
                ELSE msg.attachments[i].content # 0
            rowsFor(atts, i) ==
                {j \in 1..Len(atts) :
                    /\ atts[j].message_id = msg.id
                    /\ atts[j].filename = msg.attachments[i].filename}
        IN  /\ \A i \in 1..n :
                /\ hasRow(i) => /\ i \notin last'.fetched
                                /\ i \notin last'.saved
                /\ attachment_exists(attachments, msg.id, msg.attachments[i].filename)
                    => rowsFor(attachments', i) = rowsFor(attachments, i)
                /\ (~hasRow(i) /\ available(i))
                    => /\ i \in last'.saved
                       /\ Cardinality(rowsFor(attachments', i)) = 1
            /\ Len(attachments') = Len(attachments) + Cardinality(last'.saved)
            /\ \A i \in 1..Len(attachments) : attachments'[i] = attachments[i]]_vars

\* process_attachments ran for a message with two attachments of one
\* filename: the first was fetched and saved, the second, whose pair then
\* had a row, was neither fetched nor saved.
C26_Witness ==
    /\ last.op = "process_attachments"
    /\ last.raised = "none"
    /\ Len(last.msg.attachments) = 2
    /\ last.fetched = {1}
    /\ last.saved = {1}
    /\ Len(attachments) = 1

-----------------------------------------------------------------------------
(* Properties of the start of a command, over SpecSync *)

C28_AuthFailureFatal ==
    run.auth = "failed" =>
        /\ run.pc = "idle"
        /\ run.outcome = "AuthError"
        /\ LastRun.outcome = "AuthError"
        /\ LastRun.status = 1
        /\ run.auth_calls = 1
        /\ run.build_query_calls = <<>>
        /\ run.list_calls = <<>>
        /\ run.get_calls = <<>>
        /\ LastRun.store = StartStore
        /\ Store = StartStore

\* The login of a sync failed over a store that an earlier run had filled.
C28_Witness ==
    /\ run.auth = "failed"
    /\ LastRun.command = "sync"
    /\ DOMAIN messages # {}
    /\ Len(run.history) = 2

\* C30: sync-message, once logged in, calls neither build_query nor
\* list_messages, calls get_message once, for the given id, and returns; if
\* that call raises the store is unchanged; else the message is upserted
\* under the caller's clobber list, an error of the upsert leaves the store
\* unchanged, and process_attachments runs exactly when the upsert returned,
\* download was requested and the message has attachments.
C30_SingleMessageMode ==
    [][(Ends /\ run'.history[Len(run'.history)].command = "sync-message"
             /\ run'.auth = "ok") =>
        LET e == run'.history[Len(run'.history)]
        IN  /\ run'.build_query_calls = <<>>
            /\ run'.list_calls = <<>>
            /\ Len(run'.get_calls) = 1
            /\ e.outcome = "done"
            /\ IF now' = now
               THEN /\ e.failed = {run'.get_calls[1]}
                    /\ Store' = Store
               ELSE LET R == create_message(Store, last'.msg, e.clobber, now')
                    IN  /\ last'.op = "create_message"
                        /\ last'.msg = get_message(run.account, run'.get_calls[1])
                        /\ last'.clobber = e.clobber
                        /\ last'.raised = R.raised
                        /\ messages' = R.store.messages
                        /\ message_references' = R.store.message_references
                        /\ last'.raised # "none" => Store' = Store
                        /\ last'.attached
                            <=> /\ last'.raised = "none"
                                /\ e.download_attachments
                                /\ last'.msg.attachments # <<>>
                        /\ ~last'.attached => attachments' = attachments]_vars

\* sync-message ran for the message with attachments, with download
\* requested, and stored the message and an attachment.
C30_Witness ==
    /\ run.pc = "idle"
    /\ run.history # <<>>
    /\ LastRun.command = "sync-message"
    /\ LastRun.download_attachments
    /\ last.op = "create_message"
    /\ last.attached
    /\ last.msg.id \in DOMAIN messages
    /\ attachments # <<>>

-----------------------------------------------------------------------------
(* Properties of a repeated save, over SpecAttach *)

\* The attachment is stored for its message under its filename with its
\* content.
Stored(atts, attachment) ==
    \E i \in 1..Len(atts) :
        /\ atts[i].message_id = attachment.message_id
        /\ atts[i].filename = attachment.filename
        /\ atts[i].content = attachment.content

\* C25: save_attachment for an attachment that is stored for its message
\* under the same filename with the same content leaves the number of
\* attachment rows unchanged.
C25_ResaveUpdates ==
    [][(/\ now' # now
        /\ last'.op = "save_attachment"
        /\ Stored(attachments, last'.attachment))
        => Len(attachments') = Len(attachments)]_vars

-----------------------------------------------------------------------------
(* SpecInit: db.init over the data directories a command may find *)

MaxMissing == 1   \* columns missing from one table of a store on disk
MaxOpens == 2     \* calls of db.init in one behaviour of SpecInit

TableNames == {"messages", "message_references", "attachments"}

\* get_expected_schema(): the column manifest, in the order of its keys.
ExpectedTables == <<"messages", "message_references", "attachments">>

get_expected_schema ==
    [messages |-> {"id", "message_id", "thread_id", "sender", "recipients",
                   "labels", "subject", "body", "size", "timestamp", "is_read",
                   "is_outgoing", "last_indexed", "in_reply_to_id"},
     message_references |-> {"message_id", "refers_to_id"},
     attachments |-> {"id", "message_id", "filename", "content_type", "size",
                      "content", "last_indexed"}]

\* A data directory without messages.db.
NoDisk == [exists |-> FALSE, columns |-> [t \in TableNames |-> {}]]

\* The tables a messages.db holds: a table has at least one column.
TablesOf(disk) == {t \in TableNames : disk.columns[t] # {}}

\* create_tables(db): the three CREATE TABLE statements.
create_tables(disk) ==
    [exists |-> TRUE,
     columns |->
        [messages |-> {"id", "message_id", "thread_id", "sender", "recipients",
                       "labels", "subject", "body", "size", "timestamp",
                       "is_read", "is_outgoing", "last_indexed", "in_reply_to_id"},
         message_references |-> {"message_id", "refers_to_id"},
         attachments |-> {"id", "message_id", "filename", "content_type", "size",
                          "content", "last_indexed"}]]

\* PRAGMA table_info(table): the columns of the table; no row, and no error,
\* for a table the file does not hold.
table_info(disk, table) ==
    IF table \in TablesOf(disk) THEN disk.columns[table] ELSE {}

\* (a validation that looks at the messages table only)
validate_schemaMessagesOnly(disk) ==
    IF get_expected_schema["messages"] \subseteq table_info(disk, "messages")
    THEN [raised |-> "none", table |-> "none"]
    ELSE [raised |-> "SchemaError", table |-> "messages"]

\* validate_schema(db): the first table of the manifest some expected column
\* of which is not among the actual columns raises SchemaError.
validate_schema(disk) ==
    LET bad == {k \in 1..Len(ExpectedTables) :
                    ~(get_expected_schema[ExpectedTables[k]]
                        \subseteq table_info(disk, ExpectedTables[k]))}
    IN  IF bad = {} THEN [raised |-> "none", table |-> "none"]
        ELSE [raised |-> "SchemaError",
              table |-> ExpectedTables[CHOOSE k \in bad : \A j \in bad : k <= j]]

\* init(data_dir): an existing messages.db is validated, a missing one is
\* created.
init(disk) ==
    IF disk.exists
    THEN [disk |-> disk, raised |-> validate_schema(disk).raised,
          validated |-> TRUE, created |-> FALSE]
    ELSE [disk |-> create_tables(disk), raised |-> "none",
          validated |-> FALSE, created |-> TRUE]

\* The columns a table of a store on disk may have: the expected ones but
\* for at most MaxMissing of them, with or without a column of its own.
ColumnSets(table) ==
    {(get_expected_schema[table] \ missing) \cup extra :
        missing \in {m \in SUBSET get_expected_schema[table] :
                        Cardinality(m) <= MaxMissing},
        extra \in {{}, {"extra"}}}

\* The data directories tried: none, and a messages.db in which each table
\* is missing or has any of its column sets.
Disks ==
    {NoDisk} \cup
    {[exists |-> TRUE,
      columns |-> [messages |-> m, message_references |-> r, attachments |-> a]] :
        m \in ColumnSets("messages") \cup {{}},
        r \in ColumnSets("message_references") \cup {{}},
        a \in ColumnSets("attachments") \cup {{}}}

InitDisk ==
    /\ messages = <<>>
    /\ message_references = {}
    /\ attachments = <<>>
    /\ thread_headers = <<>>
    /\ now = 0
    /\ last = [op |-> "init"]
    /\ alt = NoAlt
    /\ \E disk \in Disks :
        run = [pc |-> "closed", disk |-> disk, opens |-> 0, raised |-> "none",
               validated |-> FALSE, created |-> FALSE, commands |-> 0]

\* main: db_conn = db.init(args.data_dir), before the try statement.  An
\* error ends the process; the operator may start it again.
DbInit ==
    /\ run.pc \in {"closed", "failed"}
    /\ run.opens < MaxOpens
    /\ LET R == init(run.disk)
       IN  run' = [run EXCEPT
                      !.pc = IF R.raised = "none" THEN "open" ELSE "failed",
                      !.disk = R.disk, !.opens = @ + 1, !.raised = R.raised,
                      !.validated = R.validated, !.created = R.created]
    /\ UNCHANGED <<messages, message_references, attachments, thread_headers,
                   now, last, alt>>

\* main: the command runs and the finally clause closes the connection.
RunCommand ==
    /\ run.pc = "open"
    /\ run' = [run EXCEPT !.pc = "closed", !.commands = @ + 1]
    /\ UNCHANGED <<messages, message_references, attachments, thread_headers,
                   now, last, alt>>

NextInit == DbInit \/ RunCommand

SpecInit == InitDisk /\ [][NextInit]_vars

\* Some expected table or column is missing from the store on disk.
Incomplete(disk) ==
    \E t \in TableNames :
        \/ t \notin TablesOf(disk)
        \/ \E c \in get_expected_schema[t] : c \notin disk.columns[t]

\* C29: db.init validates an existing store and creates nothing; it raises
\* SchemaError exactly when an expected table or column is missing, and
\* leaves the store as it found it whether it raises or not; on a directory
\* without store it creates the three tables, validates nothing and
\* returns; no command runs after a SchemaError.
C29_SchemaCheckOnOpen ==
    /\ [][run'.opens > run.opens =>
            IF run.disk.exists
            THEN /\ run'.validated
                 /\ ~run'.created
                 /\ run'.raised = (IF Incomplete(run.disk) THEN "SchemaError" ELSE "none")
                 /\ run'.disk = run.disk
            ELSE /\ run'.created
                 /\ ~run'.validated
                 /\ run'.raised = "none"
                 /\ run'.disk.exists
                 /\ TablesOf(run'.disk) = TableNames]_vars
    /\ [][run'.commands > run.commands => run.raised = "none"]_vars

\* db.init raised over a store whose messages table holds every expected
\* column and one more, and whose attachments table lacks a column.
C29_Witness ==
    /\ run.pc = "failed"
    /\ run.raised = "SchemaError"
    /\ TablesOf(run.disk) = TableNames
    /\ "extra" \in run.disk.columns["messages"]
    /\ get_expected_schema["messages"] \subseteq run.disk.columns["messages"]
    /\ "content" \notin run.disk.columns["attachments"]

-----------------------------------------------------------------------------
(* Clobber names outside the documented list *)

\* C39: a clobber entry that is not one of the ten mutable field names is
\* ignored: create_message raises what it raises, and leaves the store it
\* leaves, with those entries removed from clobber.
C39_UnknownClobberIgnored ==
    [][last'.op = "create_message" =>
        LET R == create_message(Store, last'.msg,
                                last'.clobber \cap MutableFields, last'.time)
        IN  /\ last'.raised = R.raised
            /\ Store' = R.store]_vars

-----------------------------------------------------------------------------
(* Watermarks *)

\* C36: over a store without message rows db.last_indexed() and
\* db.first_indexed() return None; over any other store they return the
\* greatest and the least point in time among the stored message
\* timestamps, so first_indexed() <= last_indexed().
C36_Watermarks ==
    LET newest == last_indexed(messages)
        oldest == first_indexed(messages)
    IN  /\ newest.raised = "none"
        /\ oldest.raised = "none"
        /\ IF DOMAIN messages = {}
           THEN newest.value = NoTime /\ oldest.value = NoTime
           ELSE /\ newest.value \in TimestampsOf(messages)
                /\ oldest.value \in TimestampsOf(messages)
                /\ \A t \in Instants(messages) :
                    /\ t <= Instant(newest.value)
                    /\ t >= Instant(oldest.value)
                /\ Instant(oldest.value) <= Instant(newest.value)

-----------------------------------------------------------------------------
(* A listing that fails *)

\* The step is a call of list_messages that raises.
ListingFails == run.pc = "list" /\ run'.failures > run.failures

\* C38: when list_messages raises, the sync command ends there with the
\* error: no further page is requested and no message fetched, thread
\* reconstruction is not run, the connection is closed once, the exit
\* status is not 0, and the store keeps every row it held.
C38_ListingFailureAborts ==
    [][ListingFails =>
        /\ Ends
        /\ run'.pc = "idle"
        /\ LET e == run'.history[Len(run'.history)]
           IN  /\ e.command = "sync"
               /\ e.outcome = "error"
               /\ e.at = "list"
               /\ e.closes = 1
               /\ e.status # 0
               /\ e.store = Store
        /\ run'.list_calls = run.list_calls
        /\ run'.get_calls = run.get_calls
        /\ last' = last
        /\ Store' = Store]_vars

\* The listing of the second page failed, after the first page's messages
\* were stored by this run: the rows are in the store the run left.
C38_Witness ==
    /\ run.pc = "idle"
    /\ run.history # <<>>
    /\ LastRun.command = "sync"
    /\ LastRun.outcome = "error"
    /\ Len(run.list_calls) = 1
    /\ run.list_calls[1].nextPageToken # Null
    /\ Len(run.get_calls) = PageSize
    /\ \A k \in 1..Len(run.get_calls) : run.get_calls[k] \in DOMAIN messages
    /\ LastRun.store = Store
    /\ last.op # "rebuild_threads"

-----------------------------------------------------------------------------
(* The order of the calls of a sync run *)

\* The ids the first n list_messages calls of the run returned, in order.
RECURSIVE ListedBy(_)
ListedBy(n) ==
    IF n = 0 THEN <<>>
    ELSE ListedBy(n - 1) \o
         list_messages(run.account.mailbox, run.list_calls[n].query,
                       run.list_calls[n].page_token).messages

\* The number of events of the given kind among the first n of the run.
RECURSIVE CountOf(_, _)
CountOf(kind, n) ==
    IF n = 0 THEN 0
    ELSE CountOf(kind, n - 1) + (IF run.events[n].kind = kind THEN 1 ELSE 0)

\* The p-th event of the run ends the handling of a message (or is the
\* listing of a page): the fetch failed, the upsert failed, the upsert
\* succeeded with no attachment to process, or the attachments were
\* processed.
Finishes(p) ==
    LET e == run.events[p]
    IN  \/ e.kind = "list"
        \/ e.kind = "attach"
        \/ e.kind \in {"get", "upsert"} /\ ~e.ok
        \/ /\ e.kind = "upsert"
           /\ ~WantsAttachments(run.download_attachments, get_message(run.account, e.id))

\* C31: within a sync run the listed ids are fetched one at a time in the
\* order the pages listed them; a message is upserted directly after its own
\* fetch returned and its attachments are processed directly after its own
\* upsert succeeded; the next fetch, and the next page request, come only
\* after the message before is finished, the page request only after every
\* id listed so far was handled; and attachment rows change only in a step
\* that processes attachments after the successful upsert of their message.
C31_SequentialProcessing ==
    /\ [](SyncStarted =>
        /\ Len(run.get_calls) <= Len(ListedBy(Len(run.list_calls)))
        /\ run.get_calls = SubSeq(ListedBy(Len(run.list_calls)), 1, Len(run.get_calls))
        /\ \A p \in 1..Len(run.events) :
            LET e == run.events[p]
            IN  /\ e.kind \in {"get", "upsert", "attach"} => p > 1
                /\ e.kind = "get" =>
                    /\ Finishes(p - 1)
                    /\ e.id = run.get_calls[CountOf("get", p)]
                /\ e.kind = "upsert" => run.events[p - 1] = Event("get", e.id, TRUE)
                /\ e.kind = "attach" =>
                    /\ run.events[p - 1] = Event("upsert", e.id, TRUE)
                    /\ run.download_attachments
                /\ (e.kind = "list" /\ p > 1) =>
                    /\ Finishes(p - 1)
                    /\ CountOf("get", p) = Len(ListedBy(CountOf("list", p - 1))))
    /\ [][attachments' # attachments =>
            LET n == Len(run'.events)
            IN  /\ n >= 2
                /\ run'.events[n].kind = "attach"
                /\ run'.events[n - 1] = Event("upsert", run'.events[n].id, TRUE)
                /\ run'.events[n].id \in DOMAIN messages']_vars

\* A run over two pages with attachments requested: on the first page a
\* fetch failed and a message was stored with its attachments, then the
\* second page was listed and its message stored.
C31_Witness ==
    /\ SyncStarted
    /\ CountOf("list", Len(run.events)) = 2
    /\ CountOf("attach", Len(run.events)) >= 1
    /\ \E p \in 1..Len(run.events) : run.events[p].kind = "get" /\ ~run.events[p].ok
    /\ Len(run.events) > 1
    /\ run.events[Len(run.events)].kind = "upsert"
    /\ run.events[Len(run.events) - 1].kind = "get"
    /\ run.events[Len(run.events) - 2].kind = "list"

-----------------------------------------------------------------------------
(* When thread reconstruction runs *)

\* C32: the sync command runs rebuild_threads at most once, as its last
\* call, after a page without nextPageToken was listed and every listed id
\* was handled, and a sync that returns has run it; the rebuild-threads
\* command runs it once and calls neither authenticate, list_messages nor
\* get_message.
C32_RebuildOnceAfterBatch ==
    /\ [](SyncStarted =>
            LET n == Len(run.events)
                calls == Len(run.list_calls)
            IN  /\ CountOf("rebuild", n) <= 1
                /\ CountOf("rebuild", n) = 1 =>
                    /\ run.events[n].kind = "rebuild"
                    /\ run.pc = "idle"
                    /\ calls > 0
                    /\ run.list_calls[calls].nextPageToken = Null
                    /\ CountOf("get", n) = Len(ListedBy(calls))
                    /\ Finishes(n - 1)
                /\ (run.pc = "idle" /\ run.outcome = "done") => CountOf("rebuild", n) = 1
                /\ (InSync \/ run.outcome # "done") => CountOf("rebuild", n) = 0)
    /\ [][(Ends /\ run'.history[Len(run'.history)].command = "rebuild-threads") =>
            /\ run'.events = <<Event("rebuild", Null, TRUE)>>
            /\ run'.auth_calls = 0
            /\ run'.list_calls = run.list_calls
            /\ run'.get_calls = run.get_calls
            /\ Store' = rebuild_threads(Store, thread_headers)]_vars
    /\ [][(now' # now /\ last'.op = "rebuild_threads") =>
            Ends /\ run'.history[Len(run'.history)].command \in {"sync", "rebuild-threads"}]_vars

\* A sync over two pages returned: two pages were listed and three messages
\* fetched and upserted before the one rebuild.
C32_Witness ==
    /\ SyncStarted
    /\ run.pc = "idle"
    /\ run.outcome = "done"
    /\ CountOf("list", Len(run.events)) = 2
    /\ CountOf("upsert", Len(run.events)) = 3
    /\ CountOf("rebuild", Len(run.events)) = 1
    /\ run.events[Len(run.events)].kind = "rebuild"

-----------------------------------------------------------------------------
(* What thread reconstruction leaves alone *)

\* The step is one pass of rebuild_threads().
Rebuilds == now' # now /\ last'.op = "rebuild_threads"

\* C37: a pass of rebuild_threads() adds and removes no message row, changes
\* no column of a message row but in_reply_to_id, last_indexed included,
\* leaves message_references and attachments as they were, and its result
\* is the one function of the stored rows and their headers, whatever ran
\* before and whenever it runs.
C37_RebuildTouchesOnlyLinks ==
    [][Rebuilds =>
        /\ DOMAIN messages' = DOMAIN messages
        /\ \A m \in DOMAIN messages :
            messages'[m] = [messages[m] EXCEPT !.in_reply_to_id = messages'[m].in_reply_to_id]
        /\ message_references' = message_references
        /\ attachments' = attachments
        /\ thread_headers' = thread_headers
        /\ Store' = rebuild_threads(Store, thread_headers)]_vars

\* A pass moved the link of a message that has reference rows, none of
\* which names the new parent's row.
C37_Witness ==
    /\ last.op = "rebuild_threads"
    /\ \E m \in DOMAIN messages :
        /\ messages[m].in_reply_to_id # Null
        /\ messages[m].in_reply_to_id # thread_headers[m].in_reply_to
        /\ <<m, <<"x">>>> \in message_references
        /\ <<m, messages[m].in_reply_to_id>> \notin message_references

-----------------------------------------------------------------------------
(* SpecImap: the pages of IMAPProvider.list_messages, followed as            *)
(* all_messages follows them                                                 *)

MaxFolders == 2     \* folders of the mailbox
MaxFolderLen == 3   \* messages the search returns in one folder
MaxResults == 2     \* max_results of IMAPProvider.list_messages
MaxCalls == 4       \* list_messages calls in one behaviour of SpecImap

\* A folder is the sequence of messages its search returns, each TRUE when
\* the message carries a Message-ID header; a mailbox is its folders in the
\* order get_labels() returns them.
Folders == UNION {[1..n -> BOOLEAN] : n \in 0..MaxFolderLen}

Mailboxes == UNION {[1..n -> Folders] : n \in 1..MaxFolders}

\* int(text)
RECURSIVE ParseInt(_)
ParseInt(text) ==
    IF text = <<>> THEN 0
    ELSE ParseInt(SubSeq(text, 1, Len(text) - 1)) * Len(DigitChars)
         + (CHOOSE d \in 0..(Len(DigitChars) - 1) : DigitChars[d + 1] = text[Len(text)])

\* f"{folder_idx}:{msg_idx}"
FormatToken(folder_idx, msg_idx) == Decimal(folder_idx) \o <<":">> \o Decimal(msg_idx)

\* folder_idx, msg_idx = map(int, page_token.split(':')), or 0, 1 without
\* a token.
ParseToken(page_token) ==
    IF ~Truthy(page_token) THEN <<0, 1>>
    ELSE LET colon == CHOOSE i \in 1..Len(page_token) : page_token[i] = ":"
         IN  <<ParseInt(SubSeq(page_token, 1, colon - 1)),
               ParseInt(SubSeq(page_token, colon + 1, Len(page_token)))>>

\* The entries of folder i (counted from 0) appended for the search results
\* numbered from..to: one per message with a Message-ID, in order.
RECURSIVE Appended(_, _, _, _)
Appended(folder, i, from, to) ==
    IF from > to THEN <<>>
    ELSE (IF folder[from] THEN <<<<i, from>>>> ELSE <<>>)
         \o Appended(folder, i, from + 1, to)

\* IMAPProvider._list_messages_in_folder(folder_name, query, start_idx,
\* max_results) over the search results of folder i.
list_messages_in_folder(folder, i, start_idx, max_results) ==
    LET total_msgs == Len(folder)
        end_idx == IF start_idx + max_results - 1 < total_msgs
                   THEN start_idx + max_results - 1 ELSE total_msgs
    IN  [messages |-> IF start_idx <= total_msgs
                      THEN Appended(folder, i, start_idx, end_idx) ELSE <<>>,
         remaining |-> IF total_msgs - end_idx > 0 THEN total_msgs - end_idx ELSE 0]

\* The for loop of IMAPProvider.list_messages from folder i on.
RECURSIVE FolderLoop(_, _, _, _, _)
FolderLoop(labels, i, msg_idx, remaining_quota, result) ==
    IF i >= Len(labels) THEN [messages |-> result, nextPageToken |-> Null]
    ELSE LET folder_result ==
                 list_messages_in_folder(labels[i + 1], i, msg_idx, remaining_quota)
             listed == result \o folder_result.messages
             quota == remaining_quota - Len(folder_result.messages)
         IN  IF folder_result.remaining > 0
             THEN [messages |-> listed,
                   nextPageToken |->
                       FormatToken(i, msg_idx + Len(folder_result.messages))]
             ELSE IF quota <= 0
             THEN [messages |-> listed,
                   nextPageToken |-> IF i + 1 < Len(labels)
                                     THEN FormatToken(i + 1, 1) ELSE Null]
             ELSE FolderLoop(labels, i + 1, 1, quota, listed)

\* IMAPProvider.list_messages(query, page_token, max_results).
IMAPProvider_list_messages(labels, page_token, max_results) ==
    FolderLoop(labels, ParseToken(page_token)[1], ParseToken(page_token)[2],
               max_results, <<>>)

InitImap ==
    /\ messages = <<>>
    /\ message_references = {}
    /\ attachments = <<>>
    /\ thread_headers = <<>>
    /\ now = 0
    /\ last = [op |-> "init"]
    /\ alt = NoAlt
    /\ \E labels \in Mailboxes, max_results \in 1..MaxResults :
        run = [pc |-> "list", labels |-> labels, max_results |-> max_results,
               page_token |-> Null, pages |-> <<>>]

\* results = provider.list_messages(query=query, page_token=page_token)
ImapListMessages ==
    /\ run.pc = "list"
    /\ Len(run.pages) < MaxCalls
    /\ LET results == IMAPProvider_list_messages(run.labels, run.page_token,
                                                 run.max_results)
       IN  run' = [run EXCEPT
                    !.pc = "listed",
                    !.pages = Append(@, [page_token |-> run.page_token,
                                         messages |-> results.messages,
                                         nextPageToken |-> results.nextPageToken])]
    /\ UNCHANGED <<messages, message_references, attachments, thread_headers,
                   now, last, alt>>

\* The end of the while loop's body: the next page under the token
\* returned, or the return.
ImapNextPage ==
    /\ run.pc = "listed"
    /\ LET results == run.pages[Len(run.pages)]
       IN  run' = IF results.nextPageToken # Null
                  THEN [run EXCEPT !.page_token = results.nextPageToken, !.pc = "list"]
                  ELSE [run EXCEPT !.pc = "returned"]
    /\ UNCHANGED <<messages, message_references, attachments, thread_headers,
                   now, last, alt>>

NextImap == ImapListMessages \/ ImapNextPage

SpecImap == InitImap /\ [][NextImap]_vars

\* (folder index, message index) of one token is before that of the other.
TokenBefore(t, u) ==
    \/ ParseToken(t)[1] < ParseToken(u)[1]
    \/ ParseToken(t)[1] = ParseToken(u)[1] /\ ParseToken(t)[2] < ParseToken(u)[2]

\* C33: every non-null nextPageToken IMAPProvider.list_messages returns is
\* strictly greater, in (folder index, message index) order, than the token
\* the call was given (no token standing for folder 0, message 1).
C33_ImapPaginationProgress ==
    \A k \in 1..Len(run.pages) :
        run.pages[k].nextPageToken # Null =>
            TokenBefore(run.pages[k].page_token, run.pages[k].nextPageToken)

\* Every message with a Message-ID, folder by folder in catalog order.
RECURSIVE Catalog(_, _)
Catalog(labels, i) ==
    IF i >= Len(labels) THEN <<>>
    ELSE Appended(labels[i + 1], i, 1, Len(labels[i + 1])) \o Catalog(labels, i + 1)

\* The ids of the first n pages, in the order listed.
RECURSIVE Paged(_)
Paged(n) == IF n = 0 THEN <<>> ELSE Paged(n - 1) \o run.pages[n].messages

\* C34: no page holds more than max_results ids, and once a page came
\* without nextPageToken the pages together list every message that has a
\* Message-ID exactly once, folder by folder in catalog order.
C34_ImapPaginationCovers ==
    /\ \A k \in 1..Len(run.pages) : Len(run.pages[k].messages) <= run.max_results
    /\ run.pc = "returned" => Paged(Len(run.pages)) = Catalog(run.labels, 0)

-----------------------------------------------------------------------------
(* SpecRace: save_attachment calls of several writers, interleaved at the   *)
(* statements they send to the store                                         *)

MaxWriters == 2    \* writers saving an attachment of message a at once
MaxExisting == 2   \* attachment rows of message a stored before they start

Writers == 1..MaxWriters

\* The filenames the writers bring.
RaceFilenames == {<<"f", ".", "t">>, <<"g", ".", "t">>}

\* The name the loop tries after k collisions on f.t.
TakenName(k) ==
    IF k = 0 THEN <<"f", ".", "t">>
    ELSE <<"f">> \o <<"(">> \o Decimal(k) \o <<")">> \o <<".", "t">>

\* (an insert into a table that has no unique index)
Attachment_createUnindexed(S, row) ==
    IF row.message_id \notin DOMAIN S.messages
    THEN [store |-> S, raised |-> "IntegrityError"]
    ELSE [store |-> [S EXCEPT !.attachments = Append(@, row)], raised |-> "none"]

\* Attachment.create(...): one INSERT, refused by the foreign key on
\* message_id or by the unique index on (message_id, filename).
Attachment_create(S, row) ==
    IF row.message_id \notin DOMAIN S.messages
    THEN [store |-> S, raised |-> "IntegrityError"]
    ELSE IF attachment_exists(S.attachments, row.message_id, row.filename)
    THEN [store |-> S, raised |-> "IntegrityError"]
    ELSE [store |-> [S EXCEPT !.attachments = Append(@, row)], raised |-> "none"]

\* The store the writers find: message a with its first n attachment names
\* taken.
RaceStore(n) ==
    LET R == create_message(EmptyStore, ParsedMessage(<<"a">>, Null, Null, <<>>, 1), {}, 0)
    IN  [R.store EXCEPT !.attachments =
            [k \in 1..n |->
                [message_id |-> <<"a">>, filename |-> TakenName(k - 1),
                 content_type |-> "text/plain", content |-> 0, size |-> 0,
                 last_indexed |-> 0]]]

\* A writer at the start of save_attachment(attachment): base, ext and
\* filename are set, counter is 1.
Writer(attachment) ==
    [pc |-> "exists", attachment |-> attachment,
     base |-> splitext(attachment.filename).base,
     ext |-> splitext(attachment.filename).ext,
     filename |-> attachment.filename, counter |-> 1, raised |-> "none"]

InitRace ==
    /\ \E n \in 0..MaxExisting :
        /\ messages = RaceStore(n).messages
        /\ message_references = RaceStore(n).message_references
        /\ attachments = RaceStore(n).attachments
    /\ thread_headers = <<>>
    /\ now = 0
    /\ last = [op |-> "init"]
    /\ alt = NoAlt
    /\ \E names \in [Writers -> RaceFilenames] :
        run = [pc |-> "race",
               writers |-> [w \in Writers |-> Writer(Attachment(<<"a">>, names[w], w))]]

\* Writer w evaluates the condition of the while loop once: one SELECT.
WriterExists(w) ==
    /\ run.pc = "race"
    /\ run.writers[w].pc = "exists"
    /\ LET me == run.writers[w]
       IN  run' = [run EXCEPT !.writers[w] =
                IF attachment_exists(attachments, me.attachment.message_id, me.filename)
                THEN [me EXCEPT
                        !.filename = me.base \o <<"(">> \o Decimal(me.counter)
                                     \o <<")">> \o me.ext,
                        !.counter = @ + 1]
                ELSE [me EXCEPT !.pc = "create"]]
    /\ UNCHANGED <<messages, message_references, attachments, thread_headers,
                   now, last, alt>>

\* Writer w sends its INSERT under the filename it settled on.
WriterCreate(w) ==
    /\ run.pc = "race"
    /\ run.writers[w].pc = "create"
    /\ now' = now + 1
    /\ LET me == run.writers[w]
           R == Attachment_create(Store,
                    [message_id |-> me.attachment.message_id,
                     filename |-> me.filename,
                     content_type |-> me.attachment.content_type,
                     content |-> me.attachment.content,
                     size |-> me.attachment.size,
                     last_indexed |-> now + 1])
       IN  /\ messages' = R.store.messages
           /\ message_references' = R.store.message_references
           /\ attachments' = R.store.attachments
           /\ run' = [run EXCEPT !.writers[w] =
                        [me EXCEPT !.pc = "done", !.raised = R.raised]]
           /\ last' = [op |-> "save_attachment", attachment |-> me.attachment,
                       time |-> now + 1, raised |-> R.raised, prev |-> last.op]
    /\ UNCHANGED <<thread_headers, alt>>

NextRace ==
    \/ \E w \in Writers : WriterExists(w)
    \/ \E w \in Writers : WriterCreate(w)

SpecRace == InitRace /\ [][NextRace]_vars

\* The row writer w sent is stored.
Kept(w) ==
    \E i \in 1..Len(attachments) :
        /\ attachments[i].message_id = run.writers[w].attachment.message_id
        /\ attachments[i].filename = run.writers[w].filename
        /\ attachments[i].content = run.writers[w].attachment.content

\* C35: however the writers' statements interleave, no two attachment rows
\* share (message_id, filename); a writer whose insert returned has its row
\* stored under the name it chose; a writer whose insert raised
\* IntegrityError chose the name another writer stored its row under, and
\* its own attachment is stored under no name.
C35_ConcurrentRename ==
    /\ UniqueFilenames
    /\ \A w \in Writers :
        run.writers[w].pc = "done" =>
            /\ run.writers[w].raised \in {"none", "IntegrityError"}
            /\ run.writers[w].raised = "none" => Kept(w)
            /\ run.writers[w].raised = "IntegrityError" =>
                /\ \E v \in Writers \ {w} :
                    /\ run.writers[v].pc = "done"
                    /\ run.writers[v].raised = "none"
                    /\ run.writers[v].filename = run.writers[w].filename
                    /\ Kept(v)
                /\ \A i \in 1..Len(attachments) :
                    attachments[i].content # run.writers[w].attachment.content

\* Two writers of f.t over a store that holds f.t both settled on f(1).t:
\* the insert of one returned, the insert of the other raised.
C35_Witness ==
    /\ run.pc = "race"
    /\ \E v, w \in Writers :
        /\ v # w
        /\ run.writers[v].pc = "done" /\ run.writers[w].pc = "done"
        /\ run.writers[v].filename = TakenName(1)
        /\ run.writers[w].filename = TakenName(1)
        /\ run.writers[v].raised = "none"
        /\ run.writers[w].raised = "IntegrityError"
        /\ Kept(v)

====
